---- MODULE Spec2Model ----
(***************************************************************************)
(* OrcaStatLLM-Researcher: the orchestrator OrcaStatLLMScientist           *)
(* (modules/researcher.py), its progress tracker, the session snapshot it  *)
(* persists and the early-exit gate of the content optimizer.              *)
(*                                                                         *)
(* The orchestrator is one coroutine on a single-threaded event loop.  It  *)
(* runs uninterrupted between awaits; the tasks it dispatched and the      *)
(* coroutines it awaits inline only move while it is suspended at one of   *)
(* its awaits.  Each action below is one block of generate_research_paper  *)
(* that ends in a save of the snapshot or in an await.                     *)
(***************************************************************************)
EXTENDS Integers, Naturals, Sequences, FiniteSets, TLC

(* ------------------------------ bounds -------------------------------- *)

\* Largest number of subtopics identify_subtopics returns in the model.
MaxPlan == 5
\* Largest number of items one academic unit puts in its result.
MaxUnitItems == 2
\* Cap on progress["analyzing_count"] increments (unbounded in the code).
MaxAnalyzing == 1
\* Number of distinct urls the collaborators are called with.
MaxUrls == 2
\* Number of distinct texts a fetch of one url can return.
MaxContents == 2
\* Cap on the store_article calls for one url.
MaxStores == 2
\* Cap on the summaries computed for one url.
MaxSummaries == 2
\* Cap on the add_reference calls for one url.
MaxAdds == 2
MaxClock == 4
MaxScrapes == 3
MaxContentLen == 5
MaxChecks == 2
MaxQueryCallers == 6
\* Entries one buffer holds before the research stops logging.
MaxLogs == 4
\* add_log calls that arrive while another is executing.
MaxNested == 2
\* add_log calls that end by an exception.
MaxRaised == 1
\* Status queries of one session.
MaxQueries == 2
\* Days the article cache is followed, and the largest age a cleanup is
\* called with.
MaxDays == 2
\* Calls of cleanup_old_articles.
MaxCleanups == 1
\* The longest time since the last request of a service, in tenths of a
\* second.
MaxElapsed == 15
\* The prompts, the units that call process_query together, and the calls
\* of the text-generation collaborator per prompt that are followed.
MaxPrompts == 2
MaxPromptCallers == 3
MaxGeminiCalls == 2
\* The sessions that run at the same time on their own threads, and the
\* articles they store.
MaxThreads == 2
MaxShared == 2
\* Tracked fetches of one researcher object.
MaxTracked == 3
\* Runs of generate_research_paper on one researcher object.
MaxRuns == 1

(* ------------------------- program constants -------------------------- *)

MaxSteps == 10
BatchSize == 2
MaxResearched == 5
VisibleSubtasks == 3
MinAcademicSources == 3
MinStatsSources == 2
MinSections == 3
MinContentLen == 500
FallbackLen == 47
\* rate_limiter.py 22: service_min_interval["google_cse"], in seconds.
MinInterval == 1
\* search_client.py 68, 63 and 90: max_retries, the count of failed
\* searches from which the alternates are used, the backoff factor.
max_retries == 2
FallbackThreshold == 3
BackoffFactor == 5
\* content_optimizer.py 79: the length below which a content counts as redundant.
MinRedundantLen == 50
\* researcher.py 80: asyncio.Semaphore(5).
SemaphoreValue == 5
\* statistics_researcher.py 106: the shortest text the statistics unit
\* keeps from a fetch.
MinStatsContentLen == 300
\* academic_researcher.py 130 and statistics_researcher.py 134: the text
\* of an item is cut to this length.
MaxItemContent == 5000
\* academic_researcher.py 137 and statistics_researcher.py 141: a dork task
\* stops when the list of its unit has this many items.
AcademicBreak == 6
StatisticsBreak == 4
\* academic_researcher.py 59-60 and statistics_researcher.py 59-60: the
\* result of a unit has at most this many items.
AcademicCap == 5
StatisticsCap == 3
\* academic_researcher.py 79 and statistics_researcher.py 86: the search
\* results a dork task looks at.
ResultsPerDork == 2
\* arxiv_researcher.py 72: the papers the arXiv unit processes.
MaxArxivPapers == 3
\* article_storage.py 108: seconds in a day.
SecondsPerDay == 86400

(* ------------------------------- state -------------------------------- *)

VARIABLES
    pc,               \* position of generate_research_paper
    research_data,    \* self.research_data: status, errors, research_results
    progress,         \* self.progress (the object research_data["progress"] aliases)
    academic_sources, \* self.academic_sources
    disk,             \* the persisted snapshot research_data.json
    task,             \* named asyncio tasks: none, running, ok, exc, awaited
    result,           \* value a finished named task holds
    subtask,          \* the subtopic research tasks, by index
    sublen,           \* content length of the section a finished subtopic task holds
    subtopics_data,   \* the plan (its length) once Structuring has returned
    section_results,  \* local list of sections: its length
    batch_idx,        \* loop variable of the batch loop
    idx,              \* loop variable i of the loop over batch_tasks
    combined_insights,\* result of combine_academic_insights
    pdf_file,         \* whether convert_to_pdf returned a path
    sufficient,       \* has_sufficient_research has returned True in this run
    unit,             \* one call of a research unit: its inputs and position
    articles,         \* ArticleStorage: index["articles"], by article id
    content_files,    \* ArticleStorage: the text of <id>.txt, by article id
    last_call,        \* the latest ArticleStorage call: arguments and return value
    stores,           \* store_article calls so far, by url
    worker,           \* the units handling a search result: url and position
    summarize_calls,  \* _summarize_content invocations so far, by url
    citation_references, \* Citation.references: citation number, by url
    citation_counter, \* Citation.citation_counter
    references,       \* the session's references: citation number, by url
    snapshot_references, \* research_data["references"] as last persisted
    adds,             \* add_reference calls so far, by url
    clock,            \* time.time(), in seconds
    service_last_call,\* RateLimitHandler.service_last_call["google_cse"]
    waiter,           \* the wait_if_needed calls in flight, by caller
    cse_fallback_count, \* SearchClient.cse_fallback_count
    search,           \* the google_search calls in flight, by caller
    fetch,            \* one scrape_url call: the url's kind, what it met, its result
    scrapes,          \* url_tracking["total_urls_scraped"]
    failed_scrapes,   \* url_tracking["failed_scrapes"]
    stored_content,   \* the texts stored as article content after a scrape
    content_fetches,  \* scrape_url calls that returned a non-empty text
    call,             \* one call of a function that only computes: argument and result
    processed_content_hashes, \* ContentOptimizer.processed_content_hashes
    seen_contents,    \* the contents is_redundant was given so far, up to case, whitespace and punctuation
    redundancy,       \* the latest is_redundant call: number, content, result
    semaphore,        \* self.semaphore: the permits left
    query,            \* the process_query calls of the units, by caller: position
    logs,                 \* AsyncBuffer.logs: the entries, oldest first
    in_add_log,           \* AsyncBuffer._in_add_log
    add_log_frames,       \* the add_log calls on the stack, outermost first
    add_log_calls,        \* how the add_log calls so far ended
    session,              \* active_sessions[session_id]: status, action_type, thread
    status_query,         \* the log before and after the last status query
    now,                  \* time.time() as the article cache reads it, in seconds
    cleanup_call,         \* the last cleanup_old_articles call: input, index and files before and after, result
    dork,                 \* each dork task: its unit's position in _process_*_dork
    academic_pdfs,        \* the list the academic dork tasks append to
    statistics_sources,   \* the list the statistics dork tasks append to
    fetches,              \* per url, the calls of web_scraper.scrape_url
    tracking_dicts,       \* the url_tracking dictionaries created so far, oldest first
    tracking_refs,        \* which dictionary each object's url_tracking attribute names
    tracked,              \* the tracked fetches and arXiv updates so far
    subtopic_call,        \* a research_subtopic call: its position, initial count, own web fetches, Section
    result_cache,         \* the prompts with a fresh entry in result_cache
    prompt_call,          \* each caller of process_query: its position and its prompt
    gemini_calls,         \* per prompt, the calls of query_gemini
    index_file,           \* article_index.json: per article id, its record
    thread,               \* each session thread: its position in an index update
    returned              \* per article id, the last update that has returned

\* The state of generate_research_paper and of its tasks.
orchestrator == <<pc, research_data, progress, academic_sources, disk, task,
                  result, subtask, sublen, subtopics_data, section_results,
                  batch_idx, idx, combined_insights, pdf_file, sufficient>>

\* The collaborators that are followed on their own, one call at a time.
storage == <<articles, content_files, last_call, stores, worker,
             summarize_calls>>

citations == <<citation_references, citation_counter, references,
               snapshot_references, adds>>

limiter == <<clock, service_last_call, waiter>>

searches == <<cse_fallback_count, search>>

scraper == <<fetch, scrapes, failed_scrapes, stored_content,
             content_fetches>>

optimizer == <<processed_content_hashes, seen_contents, redundancy>>

queries == <<semaphore, query>>

buffers == <<logs, in_add_log, add_log_frames, add_log_calls, session,
             status_query>>

cleanup == <<now, cleanup_call>>

dorks == <<dork, academic_pdfs, statistics_sources, fetches>>

tracking == <<tracking_dicts, tracking_refs, tracked, subtopic_call>>

cache == <<result_cache, prompt_call, gemini_calls>>

shared == <<index_file, thread, returned>>

components == <<unit, storage, citations, limiter, searches, scraper, call, optimizer, queries, buffers, cleanup, dorks, tracking, cache, shared>>

vars == <<orchestrator, components>>

TaskNames == {"title", "breakdown", "subtopics", "academic", "stats", "doi",
              "arxiv", "tables", "abstract", "conclusion"}
AcademicUnits == {"academic", "stats", "doi", "arxiv"}
SubIdx == 0..(MaxResearched - 1)

\* Value of a task's result that carries nothing.
Empty == 0
UnitResults == {Empty, MaxUnitItems}
\* Content length of a section research_subtopic returns.
SectionLens == {MinContentLen}

Min(a, b) == IF a < b THEN a ELSE b
Max(a, b) == IF a < b THEN b ELSE a

(* --------------------------- ProgressTracker -------------------------- *)

\* completed_subtasks may be fractional: it is kept in halves.
GetInitialProgress ==
    [current_step |-> 0, subtasks |-> 0, completed_subtasks |-> 0,
     analyzing_count |-> 0]

\* update_step counting the steps down from max_steps.
update_step_countdown(p, n, nsubtasks) ==
    [p EXCEPT !.current_step = MaxSteps - n, !.subtasks = nsubtasks,
              !.completed_subtasks = 0]

\* progress_tracker.py 24-32.
update_step(p, n, nsubtasks) ==
    [p EXCEPT !.current_step = n, !.subtasks = nsubtasks,
              !.completed_subtasks = 0]

complete_current_step(p) ==
    [p EXCEPT !.completed_subtasks = 2 * p.subtasks]

(* ------------------------- ResearchDataManager ------------------------ *)

NoResults == [s \in SubIdx |-> 0]
NoSources == [arxiv_papers |-> 0, doi_papers |-> 0, academic_pdfs |-> 0,
              statistics_sources |-> 0]

\* load_research_data when no snapshot file exists.
DefaultResearchData ==
    [status |-> "initialized", errors |-> 0, research_results |-> NoResults]

\* The snapshot file before anything was saved.
NoFile ==
    [status |-> "nofile", errors |-> 0, research_results |-> NoResults,
     progress |-> GetInitialProgress, academic_sources |-> NoSources]

\* A snapshot left by an earlier run of the same research_id that completed
\* with an empty plan and no academic source.
CompletedSnapshot ==
    [status |-> "completed", errors |-> 0, research_results |-> NoResults,
     progress |-> [current_step |-> MaxSteps, subtasks |-> 3,
                   completed_subtasks |-> 6, analyzing_count |-> 0],
     academic_sources |-> NoSources]

load_research_data(file) ==
    IF file.status = "nofile" THEN DefaultResearchData
    ELSE [status |-> file.status, errors |-> file.errors,
          research_results |-> file.research_results]

\* What save_research_data writes: research_data with academic_sources and
\* the progress object it references.
Snapshot(rd, prog, src) ==
    [status |-> rd.status, errors |-> rd.errors,
     research_results |-> rd.research_results,
     progress |-> prog, academic_sources |-> src]

\* save_research_data at the end of a block that leaves research_data = rd
\* and progress = prog.  Either the snapshot is written and the block goes on
\* at `ok`, or the write raises (a value json.dump cannot serialize has
\* entered research_data, or the file cannot be written).  Such a failure
\* persists: each of the `handlers` enclosing except clauses logs it through
\* log_exception, whose own save raises again, and the exception leaves
\* generate_research_paper.  The file is left as it was.
save_research_data(rd, prog, ok, handlers) ==
    \/ /\ research_data' = rd
       /\ progress' = prog
       /\ disk' = Snapshot(rd, prog, academic_sources)
       /\ pc' = ok
    \/ /\ research_data' = [rd EXCEPT !.errors = @ + handlers]
       /\ progress' = prog
       /\ disk' = disk
       /\ pc' = "raised"

\* log_exception: one more entry, with its traceback, in research_data["errors"].
log_exception(rd) == [rd EXCEPT !.errors = @ + 1]

(* --------------------------- ContentOptimizer ------------------------- *)

\* has_sufficient_research with every threshold exclusive.
has_sufficient_research_strict(rd, src) ==
    LET academic == src.arxiv_papers + src.doi_papers + src.academic_pdfs
        present == {s \in SubIdx : rd.research_results[s] > 0}
        long == {s \in present : rd.research_results[s] > MinContentLen}
    IN  /\ academic > MinAcademicSources
        /\ src.statistics_sources > MinStatsSources
        /\ Cardinality(present) > MinSections
        /\ Cardinality(long) > MinSections

\* content_optimizer.py 118-142.
has_sufficient_research(rd, src) ==
    LET academic == src.arxiv_papers + src.doi_papers + src.academic_pdfs
        present == {s \in SubIdx : rd.research_results[s] > 0}
        long == {s \in present : rd.research_results[s] >= MinContentLen}
    IN  /\ academic >= MinAcademicSources
        /\ src.statistics_sources >= MinStatsSources
        /\ Cardinality(present) >= MinSections
        /\ Cardinality(long) >= MinSections

(* ------------------------------- Init --------------------------------- *)

\* A session object as constructed, for the snapshot file it finds.
InitWith(file) ==
    /\ pc = "idle"
    /\ disk = file
    /\ research_data = load_research_data(disk)
    /\ progress = GetInitialProgress
    /\ academic_sources = NoSources
    /\ task = [t \in TaskNames |-> "none"]
    /\ result = [t \in TaskNames |-> Empty]
    /\ subtask = [s \in SubIdx |-> "none"]
    /\ sublen = [s \in SubIdx |-> 0]
    /\ subtopics_data = 0
    /\ section_results = 0
    /\ batch_idx = 0
    /\ idx = 0
    /\ combined_insights = NoSources
    /\ pdf_file = FALSE
    /\ sufficient = FALSE

(* --------------------------- ArticleStorage --------------------------- *)

Urls == 1..MaxUrls
Contents == 1..MaxContents
\* The metadata argument of store_article: None or a dict.
Metadatas == {"None", "dict"}
\* metadata["summary"] of an article no summary was attached to.
NoSummary == 0
Workers == {"unit_a", "unit_b"}

\* _hash_url: the md5 digest of the url, one id per url.
hash_url(url) == <<"md5", url>>

NoCall == [op |-> "none", url |-> 0, content |-> 0, metadata |-> "None",
           ret |-> "none"]

\* __init__: an empty index; no unit handles a url.
StorageInit ==
    /\ articles = <<>>
    /\ content_files = <<>>
    /\ last_call = NoCall
    /\ stores = [u \in Urls |-> 0]
    /\ worker = [w \in Workers |-> [pc |-> "idle", url |-> 0]]
    /\ summarize_calls = [u \in Urls |-> 0]

(* ------------------------------ Citation ------------------------------ *)

\* SourceReference.citation_number of a reference that was given none.
None == 0

\* Citation.__init__ and the session's empty references.
CitationInit ==
    /\ citation_references = <<>>
    /\ citation_counter = 1
    /\ references = <<>>
    /\ snapshot_references = <<>>
    /\ adds = [u \in Urls |-> 0]

(* -------------------------- RateLimitHandler: state ------------------- *)

\* academic_researcher.py 52-55: the dork searches of one batch run
\* together, each through wait_if_needed("google_cse").
Callers == {"dork_a", "dork_b"}

\* A caller outside wait_if_needed.  seen is service_last_call when the
\* call started, prev is service_last_call just before the call's stamp.
NoWait == [pc |-> "idle", wake |-> 0, seen |-> 0, prev |-> 0, stamp |-> 0]

\* rate_limiter.py 8-20: every service starts at 0; the clock is far
\* beyond the interval.
LimiterInit ==
    /\ clock = MinInterval
    /\ service_last_call = 0
    /\ waiter = [c \in Callers |-> NoWait]

(* ---------------------------- SearchClient: state --------------------- *)

\* A caller outside google_search.
NoSearch == [pc |-> "idle", retry_count |-> 0, requests |-> 0, n429 |-> 0,
             sleep |-> 0, ret |-> "none"]

\* search_client.py 25-28.
SearchInit ==
    /\ cse_fallback_count = 0
    /\ search = [c \in Callers |-> NoSearch]

(* ----------------------------- WebScraper: state ---------------------- *)

\* No scrape in progress.
NoFetch == [pc |-> "idle", kind |-> "page", met |-> "ok", ret |-> ""]

\* url_tracking.py: the counters start at 0; nothing is stored.
ScraperInit ==
    /\ fetch = NoFetch
    /\ scrapes = 0
    /\ failed_scrapes = 0
    /\ stored_content = {}
    /\ content_fetches = 0

(* ------------------------ calls of pure functions --------------------- *)

\* No such call is being followed.
CallInit == call = [name |-> "none", arg |-> 0, done |-> TRUE, ret |-> 0]

(* ------------------------- ContentOptimizer: state -------------------- *)

\* content_optimizer.py 34; researcher.py 239 empties the set when a run
\* starts.
OptimizerInit ==
    /\ processed_content_hashes = {}
    /\ seen_contents = {}
    /\ redundancy = [n |-> 0, content |-> <<>>, known |-> FALSE, ret |-> FALSE]

(* --------------------------- process_query: state --------------------- *)

\* researcher.py 80: every permit is free; no unit is in process_query.
QueryInit ==
    /\ semaphore = SemaphoreValue
    /\ query = [c \in 1..MaxQueryCallers |-> "idle"]

(* ------------------------------ EventLog: state ------------------------ *)

\* async_buffer.py 18 and 22: a new buffer has no entry and its guard flag
\* is down; app.py 58: no session exists yet.
BufferInit ==
    /\ logs = <<>>
    /\ in_add_log = FALSE
    /\ add_log_frames = <<>>
    /\ add_log_calls = [noop |-> 0, entries |-> 0, raised |-> 0]
    /\ session = [status |-> "none", action_type |-> "none", pending |-> <<>>]
    /\ status_query = [n |-> 0, before |-> <<>>, after |-> <<>>]

(* ------------------------ ArticleStorage: cleanup ---------------------- *)

NoCleanup ==
    [n |-> 0, days |-> 0, at |-> 0, articles |-> <<>>, content_files |-> <<>>,
     articles_after |-> <<>>, content_files_after |-> <<>>, ret |-> 0]

\* No cleanup has been called.
CleanupInit ==
    /\ now = 0
    /\ cleanup_call = NoCleanup

(* ------------------------------ dork tasks ----------------------------- *)

\* Two dork tasks of one batch of the academic unit and a dork task of the
\* statistics unit, which step 4 runs together (researcher.py 326-340).
DorkTasks == {"academic_a", "academic_b", "statistics_a"}

UnitOf(t) == IF t = "statistics_a" THEN "statistics" ELSE "academic"

NoDork == [pc |-> "idle", results |-> <<>>, i |-> 1, content |-> 0]

\* academic_researcher.py 43 and statistics_researcher.py 39: the lists
\* are empty and no task has started.
DorkInit ==
    /\ dork = [t \in DorkTasks |-> NoDork]
    /\ academic_pdfs = <<>>
    /\ statistics_sources = <<>>
    /\ fetches = [url \in Urls |-> 0]

(* ------------------------------ URLTracker ----------------------------- *)

\* url_tracking.py 13-27: the counters of a new dictionary.
NewTracking ==
    [total_urls_scraped |-> 0, failed_scrapes |-> 0, wikipedia_count |-> 0,
     news_count |-> 0, arxiv_count |-> 0, stats_sources_count |-> 0,
     academic_pdf_count |-> 0, doi_papers_count |-> 0, web_page_count |-> 0]

NoSubtopicCall ==
    [pc |-> "idle", initial_web_count |-> 0, web_fetched |-> 0,
     web_pages_added |-> 0, url_tracking |-> 0]

\* researcher.py 83-84 and 108-160: URLTracker() makes the first
\* dictionary; the researcher object, the subtopic and DOI researchers are
\* given it. No run has started.
TrackingInit ==
    /\ tracking_dicts = <<NewTracking>>
    /\ tracking_refs = [url_tracker |-> 1, scientist |-> 1,
                        subtopic_researcher |-> 1, arxiv_researcher |-> 0]
    /\ tracked = [runs |-> 0, fetches |-> 0, arxiv_updated |-> FALSE]
    /\ subtopic_call = NoSubtopicCall

(* ---------------------------- result_cache: state ---------------------- *)

\* researcher.py 235: a run starts with an empty result_cache; no unit is
\* in process_query.
CacheInit ==
    /\ result_cache = {}
    /\ prompt_call = [c \in 1..MaxPromptCallers |-> [pc |-> "idle", query |-> 0]]
    /\ gemini_calls = [q \in 1..MaxPrompts |-> 0]

(* ------------------------ shared article index: state ------------------ *)

\* A session thread outside store_article and add_summary_to_article.
NoUpdate == [pc |-> "idle", op |-> "none", id |-> 0,
             loaded |-> [a \in 1..MaxShared |-> "absent"]]

\* article_storage.py 20-25: the index file starts with no article; app.py
\* 72-114: every session has its own researcher, hence its own
\* ArticleStorage over the one cache directory (researcher.py 103).
SharedInit ==
    /\ index_file = [a \in 1..MaxShared |-> "absent"]
    /\ thread = [t \in 1..MaxThreads |-> NoUpdate]
    /\ returned = [a \in 1..MaxShared |-> "none"]

\* No research unit is being followed.
UnitIdle ==
    [name |-> "none", pc |-> "idle", cached |-> TRUE, event |-> "concept",
     reply |-> "array", collaborators |-> "ok", result |-> "none",
     plan |-> "none"]

\* The collaborators are at rest while generate_research_paper is followed.
ComponentsIdle ==
    /\ unit = UnitIdle
    /\ StorageInit
    /\ CitationInit
    /\ LimiterInit
    /\ SearchInit
    /\ ScraperInit
    /\ CallInit
    /\ OptimizerInit
    /\ QueryInit
    /\ BufferInit
    /\ CleanupInit
    /\ DorkInit
    /\ TrackingInit
    /\ CacheInit
    /\ SharedInit

\* A new research_id: no snapshot file yet.
Init == InitWith(NoFile) /\ ComponentsIdle

\* The research_id of an earlier, completed run.
InitReloaded == InitWith(CompletedSnapshot) /\ ComponentsIdle

locals == <<subtopics_data, section_results, batch_idx, idx,
            combined_insights, pdf_file, sufficient>>
tasks == <<task, result, subtask, sublen>>

(* ----------------------- the event loop's tasks ----------------------- *)

AwaitPCs == {"await_analysis", "await_title", "await_breakdown",
             "await_subtopics", "await_academic", "await_subtopic",
             "await_tables", "await_drafts", "await_markdown",
             "await_citations", "await_pdf"}

\* The orchestrator is suspended at an await: the other coroutines may run.
Suspended == pc \in AwaitPCs

Done(t) == task[t] \in {"ok", "exc"}

\* Tasks that never end with an exception: breakdown_topic wraps its whole
\* body in try/except; generate_tables, generate_abstract and
\* generate_conclusion only format text and call process_query, which
\* returns the error text of a failed query instead of raising.
NeverRaises == {"breakdown", "tables", "abstract", "conclusion"}

\* Values a named task can return.
ResultsOf(t) ==
    IF t \in AcademicUnits THEN UnitResults
    ELSE IF t = "subtopics" THEN 0..MaxPlan
    ELSE {Empty}

\* The key of academic_sources a unit assigns on success.
SourceKey(t) ==
    CASE t = "academic" -> "academic_pdfs"
      [] t = "stats" -> "statistics_sources"
      [] t = "doi" -> "doi_papers"
      [] t = "arxiv" -> "arxiv_papers"

\* A running named task returns a value.  An academic unit has assigned its
\* list to the shared academic_sources before it returns.
TaskReturns(t) ==
    /\ Suspended
    /\ task[t] = "running"
    /\ \E r \in ResultsOf(t) :
          /\ result' = [result EXCEPT ![t] = r]
          /\ academic_sources' =
                IF t \in AcademicUnits
                THEN [academic_sources EXCEPT ![SourceKey(t)] = r]
                ELSE academic_sources
    /\ task' = [task EXCEPT ![t] = "ok"]
    /\ UNCHANGED <<pc, research_data, progress, disk, subtask, sublen, locals>>
    /\ UNCHANGED components

\* A running named task ends with an exception.
TaskRaises(t) ==
    /\ Suspended
    /\ task[t] = "running"
    /\ t \notin NeverRaises
    /\ task' = [task EXCEPT ![t] = "exc"]
    /\ UNCHANGED <<pc, research_data, progress, academic_sources, disk, result,
                   subtask, sublen, locals>>
    /\ UNCHANGED components

\* research_subtopic returns its section.
SubtopicReturns(s) ==
    /\ Suspended
    /\ subtask[s] = "running"
    /\ \E n \in SectionLens : sublen' = [sublen EXCEPT ![s] = n]
    /\ subtask' = [subtask EXCEPT ![s] = "ok"]
    /\ UNCHANGED <<pc, research_data, progress, academic_sources, disk, task,
                   result, locals>>
    /\ UNCHANGED components

SubtopicRaises(s) ==
    /\ Suspended
    /\ subtask[s] = "running"
    /\ subtask' = [subtask EXCEPT ![s] = "exc"]
    /\ UNCHANGED <<pc, research_data, progress, academic_sources, disk, task,
                   result, sublen, locals>>
    /\ UNCHANGED components

\* research_subtopic, after a page was scraped: progress["analyzing_count"] += 1
\* on the progress object the orchestrator passed in; nothing is saved.
SubtopicAnalyzes(s) ==
    /\ Suspended
    /\ subtask[s] = "running"
    /\ progress.analyzing_count < MaxAnalyzing
    /\ progress' = [progress EXCEPT !.analyzing_count = @ + 1]
    /\ UNCHANGED <<pc, research_data, academic_sources, disk, tasks, locals>>
    /\ UNCHANGED components

\* tracked_scrape_url in a running research unit: a successful scrape calls
\* the save callback (an exception of the save is swallowed by the wrapper).
TrackedScrapeSaves ==
    /\ Suspended
    /\ \/ \E t \in AcademicUnits : task[t] = "running"
       \/ \E s \in SubIdx : subtask[s] = "running"
    /\ disk' = Snapshot(research_data, progress, academic_sources)
    /\ UNCHANGED <<pc, research_data, progress, academic_sources, tasks, locals>>
    /\ UNCHANGED components

(* --------------------- generate_research_paper ------------------------ *)

\* Lines 221-242: the caches and counters are reset, progress is reset and
\* persisted.
Start ==
    /\ pc = "idle"
    /\ save_research_data(research_data,
            GetInitialProgress,
            "set_researching", 1)
    /\ UNCHANGED academic_sources
    /\ UNCHANGED <<tasks, locals>>
    /\ UNCHANGED components

\* Lines 244-251.
SetResearching ==
    /\ pc = "set_researching"
    /\ save_research_data(
            [research_data EXCEPT !.status = "researching"],
            progress, "step1_enter", 1)
    /\ UNCHANGED academic_sources
    /\ UNCHANGED <<tasks, locals>>
    /\ UNCHANGED components

\* Step 1 entered without _update_progress_state: the orchestrator suspends
\* on analyze_topic with the transition not persisted.
Step1EnterUnsaved ==
    /\ pc = "step1_enter"
    /\ progress' = update_step(progress, 1, 3)
    /\ task' = [task EXCEPT !["title"] = "running"]
    /\ pc' = "await_analysis"
    /\ UNCHANGED <<research_data, academic_sources, disk, result, subtask,
                   sublen, locals>>
    /\ UNCHANGED components

\* Lines 253-267: step 1 is entered, the title task is created and
\* analyze_topic is awaited inline.
Step1Enter ==
    /\ pc = "step1_enter"
    /\ save_research_data(research_data,
            update_step(progress, 1, 3),
            "await_analysis", 1)
    /\ UNCHANGED academic_sources
    /\ task' = IF pc' = "await_analysis"
               THEN [task EXCEPT !["title"] = "running"] ELSE task
    /\ UNCHANGED <<result, subtask, sublen, locals>>
    /\ UNCHANGED components

\* analyze_topic returns: it catches every exception itself.
AnalysisReturns ==
    /\ pc = "await_analysis"
    /\ pc' = "step1_complete"
    /\ UNCHANGED <<research_data, progress, academic_sources, disk, tasks,
                   locals>>
    /\ UNCHANGED components

\* Lines 269-270.
Step1Complete ==
    /\ pc = "step1_complete"
    /\ save_research_data(research_data,
            complete_current_step(progress),
            "step1_save", 1)
    /\ UNCHANGED academic_sources
    /\ UNCHANGED <<tasks, locals>>
    /\ UNCHANGED components

\* Lines 271-272: event_analysis is stored and saved.
Step1Save ==
    /\ pc = "step1_save"
    /\ save_research_data(research_data, progress,
            "await_title", 1)
    /\ UNCHANGED academic_sources
    /\ UNCHANGED <<tasks, locals>>
    /\ UNCHANGED components

\* Lines 273-278: the title task has returned.
TitleAwaited ==
    /\ pc = "await_title"
    /\ task["title"] = "ok"
    /\ task' = [task EXCEPT !["title"] = "awaited"]
    /\ pc' = "title_save"
    /\ UNCHANGED <<research_data, progress, academic_sources, disk, result,
                   subtask, sublen, locals>>
    /\ UNCHANGED components

\* Lines 279-282: the title task raised; the exception is logged and the
\* default title is used.
TitleFailed ==
    /\ pc = "await_title"
    /\ task["title"] = "exc"
    /\ task' = [task EXCEPT !["title"] = "awaited"]
    /\ save_research_data(
            log_exception(research_data),
            progress, "title_save", 1)
    /\ UNCHANGED academic_sources
    /\ UNCHANGED <<result, subtask, sublen, locals>>
    /\ UNCHANGED components

\* Lines 284-285.
TitleSave ==
    /\ pc = "title_save"
    /\ save_research_data(research_data, progress,
            "step2_enter", 1)
    /\ UNCHANGED academic_sources
    /\ UNCHANGED <<tasks, locals>>
    /\ UNCHANGED components

\* Lines 286-300: the breakdown and subtopics tasks are created, then step 2
\* is entered and the breakdown task awaited.
Step2Enter ==
    /\ pc = "step2_enter"
    /\ task' = [task EXCEPT !["breakdown"] = "running",
                            !["subtopics"] = "running"]
    /\ save_research_data(research_data,
            update_step(progress, 2, 3),
            "await_breakdown", 1)
    /\ UNCHANGED academic_sources
    /\ UNCHANGED <<result, subtask, sublen, locals>>
    /\ UNCHANGED components

\* Line 300.
BreakdownAwaited ==
    /\ pc = "await_breakdown"
    /\ task["breakdown"] = "ok"
    /\ task' = [task EXCEPT !["breakdown"] = "awaited"]
    /\ pc' = "step2_complete"
    /\ UNCHANGED <<research_data, progress, academic_sources, disk, result,
                   subtask, sublen, locals>>
    /\ UNCHANGED components

\* Lines 302-303.
Step2Complete ==
    /\ pc = "step2_complete"
    /\ save_research_data(research_data,
            complete_current_step(progress),
            "step2_save", 1)
    /\ UNCHANGED academic_sources
    /\ UNCHANGED <<tasks, locals>>
    /\ UNCHANGED components

\* Lines 305-306.
Step2Save ==
    /\ pc = "step2_save"
    /\ save_research_data(research_data, progress,
            "step3_enter", 1)
    /\ UNCHANGED academic_sources
    /\ UNCHANGED <<tasks, locals>>
    /\ UNCHANGED components

\* Lines 307-314.
Step3Enter ==
    /\ pc = "step3_enter"
    /\ save_research_data(research_data,
            update_step(progress, 3, 3),
            "await_subtopics", 1)
    /\ UNCHANGED academic_sources
    /\ UNCHANGED <<tasks, locals>>
    /\ UNCHANGED components

\* Line 314: the plan is returned, or identify_subtopics raised.
SubtopicsAwaited ==
    /\ pc = "await_subtopics"
    /\ Done("subtopics")
    /\ task' = [task EXCEPT !["subtopics"] = "awaited"]
    /\ IF task["subtopics"] = "ok"
       THEN /\ subtopics_data' = result["subtopics"]
            /\ pc' = "step3_complete"
       ELSE /\ subtopics_data' = subtopics_data
            /\ pc' = "handler"
    /\ UNCHANGED <<research_data, progress, academic_sources, disk, result,
                   subtask, sublen, section_results, batch_idx, idx,
                   combined_insights, pdf_file, sufficient>>
    /\ UNCHANGED components

\* Lines 316-317.
Step3Complete ==
    /\ pc = "step3_complete"
    /\ save_research_data(research_data,
            complete_current_step(progress),
            "step4_enter", 1)
    /\ UNCHANGED academic_sources
    /\ UNCHANGED <<tasks, locals>>
    /\ UNCHANGED components

\* Lines 318-340: step 4 is entered, the four academic units are started as
\* tasks and gathered.
Step4Enter ==
    /\ pc = "step4_enter"
    /\ save_research_data(research_data,
            update_step(progress, 4, 4),
            "await_academic", 1)
    /\ UNCHANGED academic_sources
    /\ task' = IF pc' = "await_academic"
               THEN [t \in TaskNames |->
                        IF t \in AcademicUnits THEN "running" ELSE task[t]]
               ELSE task
    /\ UNCHANGED <<result, subtask, sublen, locals>>
    /\ UNCHANGED components

\* Line 348: the entry of `results` for a unit that raised is its exception.
Failed == -1

\* Lines 340-341: gather(..., return_exceptions=True) puts the exception of
\* a failed task in the place of its result.
GatherResult(t) == IF task[t] = "exc" THEN Failed ELSE result[t]

\* Lines 347-358: what one gathered result contributes; an exception leaves
\* the unit's insights at their empty default.
ResultOrEmpty(r) == IF r = Failed THEN Empty ELSE r

\* combine_academic_insights: the lists the merged record takes from the
\* four insights.
combine_academic_insights(arxiv, academic, stats, doi) ==
    [arxiv_papers |-> arxiv, doi_papers |-> doi,
     statistics_sources |-> stats, academic_pdfs |-> academic]

\* The gather of step 4 without return_exceptions: the exception of a unit
\* is raised into the orchestrator.
AcademicGatheredRaising ==
    /\ pc = "await_academic"
    /\ \/ /\ \E t \in AcademicUnits : task[t] = "exc"
          /\ pc' = "handler"
          /\ UNCHANGED <<task, result, combined_insights>>
       \/ /\ \A t \in AcademicUnits : task[t] = "ok"
          /\ task' = [t \in TaskNames |->
                          IF t \in AcademicUnits THEN "awaited" ELSE task[t]]
          /\ combined_insights' =
                combine_academic_insights(result["arxiv"], result["academic"],
                    result["stats"], result["doi"])
          /\ pc' = "step4_complete"
          /\ UNCHANGED result
    /\ UNCHANGED <<research_data, progress, academic_sources, disk,
                   subtask, sublen, subtopics_data, section_results,
                   batch_idx, idx, pdf_file, sufficient>>
    /\ UNCHANGED components

\* Lines 340-366: gather(..., return_exceptions=True) returns once all four
\* tasks are done; the results are merged.
AcademicGathered ==
    /\ pc = "await_academic"
    /\ \A t \in AcademicUnits : Done(t)
    /\ task' = [t \in TaskNames |->
                    IF t \in AcademicUnits THEN "awaited" ELSE task[t]]
    /\ result' = [t \in TaskNames |->
                      IF t \in AcademicUnits THEN GatherResult(t)
                      ELSE result[t]]
    /\ combined_insights' =
          combine_academic_insights(ResultOrEmpty(result'["arxiv"]),
              ResultOrEmpty(result'["academic"]),
              ResultOrEmpty(result'["stats"]),
              ResultOrEmpty(result'["doi"]))
    /\ pc' = "step4_complete"
    /\ UNCHANGED <<research_data, progress, academic_sources, disk,
                   subtask, sublen, subtopics_data, section_results,
                   batch_idx, idx, pdf_file, sufficient>>
    /\ UNCHANGED components

\* Lines 368-369.  `results` is not read after the merge.
Step4Complete ==
    /\ pc = "step4_complete"
    /\ save_research_data(research_data,
            complete_current_step(progress),
            "step4_save", 1)
    /\ result' = [t \in TaskNames |->
                      IF t \in AcademicUnits THEN Empty ELSE result[t]]
    /\ UNCHANGED academic_sources
    /\ UNCHANGED <<task, subtask, sublen, locals>>
    /\ UNCHANGED components

\* Lines 371-373: the insights are saved; Deep Research is entered only for
\* a non-empty plan.
Step4Save ==
    /\ pc = "step4_save"
    /\ save_research_data(research_data, progress,
            IF subtopics_data > 0 THEN "step5_enter"
                          ELSE "step5_complete", 1)
    /\ UNCHANGED academic_sources
    /\ UNCHANGED <<tasks, locals>>
    /\ UNCHANGED components

(* --------------------------- Deep Research ---------------------------- *)

\* Lines 390-394: the plan truncated to the most important subtopics.
subtopics_to_research == Min(subtopics_data, MaxResearched)

\* Lines 376-379: the subtasks listed for step 5.
Step5Subtasks ==
    Min(subtopics_data, VisibleSubtasks)
        + (IF subtopics_data > VisibleSubtasks THEN 1 ELSE 0)

\* Line 405: the indices of the batch that starts at b.
\* A batch of one task more than batch_size.
BatchOfThree(b) ==
    {s \in SubIdx : b <= s /\ s < Min(b + BatchSize + 1, subtopics_to_research)}

BatchOf(b) == {s \in SubIdx : b <= s /\ s < Min(b + BatchSize, subtopics_to_research)}

\* Lines 374-398.
Step5Enter ==
    /\ pc = "step5_enter"
    /\ save_research_data(research_data,
            update_step(progress, 5, Step5Subtasks),
            "batch_start", 1)
    /\ UNCHANGED academic_sources
    /\ section_results' = 0
    /\ batch_idx' = 0
    /\ UNCHANGED <<tasks, subtopics_data, idx, combined_insights, pdf_file,
                   sufficient>>
    /\ UNCHANGED components

\* Lines 400-415: one task per subtopic of the batch is created and the
\* first of them awaited.
DispatchBatch ==
    /\ pc = "batch_start"
    /\ batch_idx < subtopics_to_research
    /\ subtask' = [s \in SubIdx |->
                      IF s \in BatchOf(batch_idx) THEN "running" ELSE subtask[s]]
    /\ idx' = batch_idx
    /\ pc' = "await_subtopic"
    /\ UNCHANGED <<research_data, progress, academic_sources, disk, task,
                   result, sublen, subtopics_data, section_results, batch_idx,
                   combined_insights, pdf_file, sufficient>>
    /\ UNCHANGED components

\* Line 400: the batch loop is exhausted.
BatchesDone ==
    /\ pc = "batch_start"
    /\ batch_idx >= subtopics_to_research
    /\ pc' = "step5_complete"
    /\ UNCHANGED <<research_data, progress, academic_sources, disk, tasks,
                   locals>>
    /\ UNCHANGED components

\* Where the loop over batch_tasks goes after task idx: the next task of
\* the batch, or the next batch.
NextIndex ==
    IF idx + 1 \in BatchOf(batch_idx)
    THEN /\ idx' = idx + 1
         /\ batch_idx' = batch_idx
    ELSE /\ idx' = idx
         /\ batch_idx' = batch_idx + BatchSize

NextInBatch ==
    /\ NextIndex
    /\ pc' = IF idx + 1 \in BatchOf(batch_idx)
             THEN "await_subtopic" ELSE "batch_start"

\* Lines 415-418: task idx returned its section; it is appended, recorded
\* in research_results and saved.
SubtopicAwaited ==
    /\ pc = "await_subtopic"
    /\ subtask[idx] = "ok"
    /\ subtask' = [subtask EXCEPT ![idx] = "awaited"]
    /\ section_results' = section_results + 1
    /\ save_research_data(
            [research_data EXCEPT !.research_results[idx] = sublen[idx]],
            progress, "subtopic_progress", 2)
    /\ UNCHANGED academic_sources
    /\ UNCHANGED <<task, result, sublen, subtopics_data, batch_idx, idx,
                   combined_insights, pdf_file, sufficient>>
    /\ UNCHANGED components

\* completed_subtasks of step 5 with the share of the last subtask left
\* undivided.
SubtopicCompletedUndivided(i) ==
    IF i < VisibleSubtasks THEN 2 * (i + 1)
    ELSE 2 * VisibleSubtasks + 2 * (i - 2)

\* Lines 420-425: completed_subtasks of step 5 (in halves).
SubtopicCompleted(i) ==
    IF i < VisibleSubtasks THEN 2 * (i + 1)
    ELSE 2 * VisibleSubtasks
           + (2 * (i - 2)) \div Max(1, subtopics_to_research - VisibleSubtasks)

SubtopicProgress ==
    /\ pc = "subtopic_progress"
    /\ save_research_data(research_data,
            [progress EXCEPT !.completed_subtasks = SubtopicCompleted(idx)],
            "gate_check", 2)
    /\ UNCHANGED academic_sources
    /\ UNCHANGED <<tasks, locals>>
    /\ UNCHANGED components

\* Lines 426-429: the early-exit gate; its break leaves the loop over
\* batch_tasks only.
GateCheck ==
    /\ pc = "gate_check"
    /\ IF /\ section_results >= MinSections
          /\ has_sufficient_research(research_data, academic_sources)
       THEN /\ sufficient' = TRUE
            /\ idx' = idx
            /\ batch_idx' = batch_idx + BatchSize
            /\ pc' = "batch_start"
       ELSE /\ sufficient' = sufficient
            /\ NextInBatch
    /\ UNCHANGED <<research_data, progress, academic_sources, disk, tasks,
                   subtopics_data, section_results, combined_insights,
                   pdf_file>>
    /\ UNCHANGED components

\* Line 415: task idx raised.
SubtopicFailed ==
    /\ pc = "await_subtopic"
    /\ subtask[idx] = "exc"
    /\ subtask' = [subtask EXCEPT ![idx] = "awaited"]
    /\ pc' = "subtopic_except"
    /\ UNCHANGED <<research_data, progress, academic_sources, disk, task,
                   result, sublen, locals>>
    /\ UNCHANGED components

\* Lines 431-433: the handler of the loop body logs the exception.
SubtopicExcept ==
    /\ pc = "subtopic_except"
    /\ save_research_data(
            log_exception(research_data),
            progress, "subtopic_fallback", 1)
    /\ UNCHANGED academic_sources
    /\ UNCHANGED <<tasks, locals>>
    /\ UNCHANGED components

\* Lines 434-438: a fallback section takes the subtopic's place.
SubtopicFallback ==
    /\ pc = "subtopic_fallback"
    /\ section_results' = section_results + 1
    /\ \E next \in {"await_subtopic", "batch_start"} :
          /\ next = (IF idx + 1 \in BatchOf(batch_idx)
                     THEN "await_subtopic" ELSE "batch_start")
          /\ save_research_data(
                  [research_data EXCEPT !.research_results[idx] = FallbackLen],
                  progress, next, 1)
    /\ IF pc' = "raised"
       THEN UNCHANGED <<idx, batch_idx>>
       ELSE NextIndex
    /\ UNCHANGED academic_sources
    /\ UNCHANGED <<tasks, subtopics_data, combined_insights, pdf_file,
                   sufficient>>
    /\ UNCHANGED components

\* Lines 440-441.
Step5Complete ==
    /\ pc = "step5_complete"
    /\ save_research_data(research_data,
            complete_current_step(progress),
            "step6_enter", 1)
    /\ UNCHANGED academic_sources
    /\ UNCHANGED <<tasks, locals>>
    /\ UNCHANGED components

(* ------------------- steps 6-10 and the handler ----------------------- *)

\* Lines 443-461: the tables, abstract and conclusion tasks are created,
\* step 6 is entered and the tables task awaited.
Step6Enter ==
    /\ pc = "step6_enter"
    /\ task' = [task EXCEPT !["tables"] = "running", !["abstract"] = "running",
                            !["conclusion"] = "running"]
    /\ save_research_data(research_data,
            update_step(progress, 6, 3),
            "await_tables", 1)
    /\ UNCHANGED academic_sources
    /\ UNCHANGED <<result, subtask, sublen, locals>>
    /\ UNCHANGED components

\* Line 461.
TablesAwaited ==
    /\ pc = "await_tables"
    /\ task["tables"] = "ok"
    /\ task' = [task EXCEPT !["tables"] = "awaited"]
    /\ pc' = "step6_complete"
    /\ UNCHANGED <<research_data, progress, academic_sources, disk, result,
                   subtask, sublen, locals>>
    /\ UNCHANGED components

\* Lines 463-464.
Step6Complete ==
    /\ pc = "step6_complete"
    /\ save_research_data(research_data,
            complete_current_step(progress),
            "step6_save", 1)
    /\ UNCHANGED academic_sources
    /\ UNCHANGED <<tasks, locals>>
    /\ UNCHANGED components

\* Lines 466-467.
Step6Save ==
    /\ pc = "step6_save"
    /\ save_research_data(research_data, progress,
            "step7_enter", 1)
    /\ UNCHANGED academic_sources
    /\ UNCHANGED <<tasks, locals>>
    /\ UNCHANGED components

\* Lines 468-475.
Step7Enter ==
    /\ pc = "step7_enter"
    /\ save_research_data(research_data,
            update_step(progress, 7, 3),
            "await_drafts", 1)
    /\ UNCHANGED academic_sources
    /\ UNCHANGED <<tasks, locals>>
    /\ UNCHANGED components

\* Line 475: gather(abstract_task, conclusion_task) returns once both tasks
\* have returned.
DraftsGathered ==
    /\ pc = "await_drafts"
    /\ task["abstract"] = "ok"
    /\ task["conclusion"] = "ok"
    /\ task' = [task EXCEPT !["abstract"] = "awaited",
                            !["conclusion"] = "awaited"]
    /\ pc' = "step7_subtasks"
    /\ UNCHANGED <<research_data, progress, academic_sources, disk, result,
                   subtask, sublen, locals>>
    /\ UNCHANGED components

\* Lines 477-478: completed_subtasks = 3 (kept in halves).
Step7Subtasks ==
    /\ pc = "step7_subtasks"
    /\ save_research_data(research_data,
            [progress EXCEPT !.completed_subtasks = 2 * 3],
            "step7_save", 1)
    /\ UNCHANGED academic_sources
    /\ UNCHANGED <<tasks, locals>>
    /\ UNCHANGED components

\* Lines 480-482.
Step7Save ==
    /\ pc = "step7_save"
    /\ save_research_data(research_data, progress,
            "step7_complete", 1)
    /\ UNCHANGED academic_sources
    /\ UNCHANGED <<tasks, locals>>
    /\ UNCHANGED components

\* Lines 484-485.
Step7Complete ==
    /\ pc = "step7_complete"
    /\ save_research_data(research_data,
            complete_current_step(progress),
            "step8_enter", 1)
    /\ UNCHANGED academic_sources
    /\ UNCHANGED <<tasks, locals>>
    /\ UNCHANGED components

\* Lines 487-494.
Step8Enter ==
    /\ pc = "step8_enter"
    /\ save_research_data(research_data,
            update_step(progress, 8, 3),
            "await_markdown", 1)
    /\ UNCHANGED academic_sources
    /\ UNCHANGED <<tasks, locals>>
    /\ UNCHANGED components

\* Lines 494 and 608-625: generate_markdown returns a path, or its fallback
\* write raises.
MarkdownReturns ==
    /\ pc = "await_markdown"
    /\ \/ pc' = "step8_complete"
       \/ pc' = "handler"
    /\ UNCHANGED <<research_data, progress, academic_sources, disk, tasks,
                   locals>>
    /\ UNCHANGED components

\* Lines 497-498.
Step8Complete ==
    /\ pc = "step8_complete"
    /\ save_research_data(research_data,
            complete_current_step(progress),
            "step8_save", 1)
    /\ UNCHANGED academic_sources
    /\ UNCHANGED <<tasks, locals>>
    /\ UNCHANGED components

\* Lines 500-501.
Step8Save ==
    /\ pc = "step8_save"
    /\ save_research_data(research_data, progress,
            "step9_enter", 1)
    /\ UNCHANGED academic_sources
    /\ UNCHANGED <<tasks, locals>>
    /\ UNCHANGED components

\* Lines 503-510.
Step9Enter ==
    /\ pc = "step9_enter"
    /\ save_research_data(research_data,
            update_step(progress, 9, 3),
            "await_citations", 1)
    /\ UNCHANGED academic_sources
    /\ UNCHANGED <<tasks, locals>>
    /\ UNCHANGED components

\* Line 510: enhance_academic_citations returns or raises.
CitationsReturn ==
    /\ pc = "await_citations"
    /\ \/ pc' = "step9_complete"
       \/ pc' = "handler"
    /\ UNCHANGED <<research_data, progress, academic_sources, disk, tasks,
                   locals>>
    /\ UNCHANGED components

\* Lines 512-513.
Step9Complete ==
    /\ pc = "step9_complete"
    /\ save_research_data(research_data,
            complete_current_step(progress),
            "step10_enter", 1)
    /\ UNCHANGED academic_sources
    /\ UNCHANGED <<tasks, locals>>
    /\ UNCHANGED components

\* Lines 514-521.
Step10Enter ==
    /\ pc = "step10_enter"
    /\ save_research_data(research_data,
            update_step(progress, MaxSteps, 3),
            "await_pdf", 1)
    /\ UNCHANGED academic_sources
    /\ UNCHANGED <<tasks, locals>>
    /\ UNCHANGED components

\* PDFConverter.convert_to_pdf: the path of the PDF, or "" when every
\* conversion method failed; it catches every exception itself.
convert_to_pdf ==
    /\ pc = "await_pdf"
    /\ pdf_file' \in BOOLEAN
    /\ pc' = "step10_complete"
    /\ UNCHANGED <<research_data, progress, academic_sources, disk, tasks,
                   subtopics_data, section_results, batch_idx, idx,
                   combined_insights, sufficient>>
    /\ UNCHANGED components

\* Lines 523-524.
Step10Complete ==
    /\ pc = "step10_complete"
    /\ save_research_data(research_data,
            complete_current_step(progress),
            "finish", 1)
    /\ UNCHANGED academic_sources
    /\ UNCHANGED <<tasks, locals>>
    /\ UNCHANGED components

\* Lines 526-533: status becomes completed, and is saved, only if a PDF
\* was produced; the markdown path is returned.
Finish ==
    /\ pc = "finish"
    /\ IF pdf_file
       THEN /\ save_research_data(
                    [research_data EXCEPT !.status = "completed"],
                    progress, "return_markdown", 1)
            /\ UNCHANGED academic_sources
       ELSE /\ pc' = "return_markdown"
            /\ UNCHANGED <<research_data, progress, academic_sources, disk>>
    /\ UNCHANGED <<tasks, locals>>
    /\ UNCHANGED components

\* Lines 534-537: the top-level handler, entered by an exception that no
\* save raised, logs it into research_data["errors"], saves and returns "".
\* An exception of that save leaves generate_research_paper.
Handler ==
    /\ pc = "handler"
    /\ save_research_data(
            log_exception(research_data),
            progress, "return_empty", 0)
    /\ UNCHANGED academic_sources
    /\ UNCHANGED <<tasks, locals>>
    /\ UNCHANGED components

ReturnPCs == {"return_markdown", "return_empty"}

(* --------------------------- specification ---------------------------- *)

Next ==
    \/ \E t \in TaskNames : TaskReturns(t) \/ TaskRaises(t)
    \/ \E s \in SubIdx : SubtopicReturns(s) \/ SubtopicRaises(s)
                            \/ SubtopicAnalyzes(s)
    \/ TrackedScrapeSaves
    \/ Start \/ SetResearching
    \/ Step1Enter \/ AnalysisReturns \/ Step1Complete \/ Step1Save
    \/ TitleAwaited \/ TitleFailed \/ TitleSave
    \/ Step2Enter \/ BreakdownAwaited \/ Step2Complete \/ Step2Save
    \/ Step3Enter \/ SubtopicsAwaited \/ Step3Complete
    \/ Step4Enter \/ AcademicGathered \/ Step4Complete \/ Step4Save
    \/ Step5Enter \/ DispatchBatch \/ BatchesDone
    \/ SubtopicAwaited \/ SubtopicProgress \/ GateCheck
    \/ SubtopicFailed \/ SubtopicExcept \/ SubtopicFallback \/ Step5Complete
    \/ Step6Enter \/ TablesAwaited \/ Step6Complete \/ Step6Save
    \/ Step7Enter \/ DraftsGathered \/ Step7Subtasks
    \/ Step7Save \/ Step7Complete
    \/ Step8Enter \/ MarkdownReturns \/ Step8Complete \/ Step8Save
    \/ Step9Enter \/ CitationsReturn \/ Step9Complete
    \/ Step10Enter \/ convert_to_pdf \/ Step10Complete \/ Finish
    \/ Handler

Spec == Init /\ [][Next]_vars

SpecReloaded == InitReloaded /\ [][Next]_vars

(* --------------------------- research units --------------------------- *)

\* What process_query returns for a prompt that asks for a JSON array: the
\* text of an array of records, of an empty array, of an array of strings,
\* of another JSON value, or text that is not JSON (query_gemini returns the
\* error text of a failed query).
Replies ==
    {"array", "empty_array", "string_array", "object", "string", "number",
     "not_json"}

\* json.loads: the Python type of the parsed reply, or the exception.
json_loads(reply) ==
    CASE reply \in {"array", "empty_array", "string_array"} -> "list"
      [] reply = "object" -> "dict"
      [] reply = "string" -> "str"
      [] reply = "number" -> "int"
      [] reply = "not_json" -> "JSONDecodeError"

\* What the search, fetch and storage collaborators of a unit do.
Collaborators == {"ok", "empty", "raise"}

\* research_data["event_analysis"]: a concept, an event whose news articles
\* all carry a title, or an event with an article that has none.
EventAnalyses == {"concept", "event_titled", "event_untitled"}

\* The calls of the three units, with what their collaborators will do.
UnitCalls ==
    [name : {"identify_subtopics", "research_academic_papers_with_dorks",
             "research_subtopic"},
     pc : {"called"}, cached : BOOLEAN, event : EventAnalyses,
     reply : Replies, collaborators : Collaborators, result : {"none"},
     plan : {"none"}]

\* The shape each unit documents for its result.
NormalShape(name) == IF name = "identify_subtopics" THEN "list" ELSE "dict"

\* topic_analyzer.py 184-187: a missing event_analysis is fetched with
\* detect_event_topic(topic, buffer); that method requires a third
\* argument, so the call raises TypeError, outside any try.
IdentifyStart ==
    /\ unit.name = "identify_subtopics"
    /\ unit.pc = "called"
    /\ unit' = [unit EXCEPT !.pc = IF unit.cached THEN "prompt" ELSE "raised"]
    /\ UNCHANGED <<orchestrator, storage, citations, limiter, searches, scraper, call, optimizer, queries, buffers, cleanup, dorks, tracking, cache, shared>>

\* topic_analyzer.py 189-247: the prompt is built; for an event the
\* headlines are read with article['title'], outside any try.
IdentifyPrompt ==
    /\ unit.name = "identify_subtopics"
    /\ unit.pc = "prompt"
    /\ unit' = [unit EXCEPT !.pc = IF unit.event = "event_untitled"
                                    THEN "raised" ELSE "parse"]
    /\ UNCHANGED <<orchestrator, storage, citations, limiter, searches, scraper, call, optimizer, queries, buffers, cleanup, dorks, tracking, cache, shared>>

\* topic_analyzer.py 252-294: the plan identify_subtopics returns for a
\* reply. The value of json.loads is returned without a look at its
\* elements (259-261); the hardcoded list of subtopic records is returned
\* when json.loads raises, or when len() of its value does (a number).
subtopics_plan(reply) ==
    CASE reply = "array" -> "records"
      [] reply = "empty_array" -> "empty_list"
      [] reply = "string_array" -> "strings"
      [] reply = "object" -> "object"
      [] reply = "string" -> "text"
      [] reply \in {"number", "not_json"} -> "records"

\* topic_analyzer.py 249-294: the reply is parsed and returned as it is;
\* the fallback plan is used only when the parse, or len() of its value,
\* raises.
IdentifyParse ==
    /\ unit.name = "identify_subtopics"
    /\ unit.pc = "parse"
    /\ unit' = [unit EXCEPT
          !.pc = "returned",
          !.result = IF json_loads(unit.reply) \in {"JSONDecodeError", "int"}
                     THEN "list" ELSE json_loads(unit.reply),
          !.plan = subtopics_plan(unit.reply)]
    /\ UNCHANGED <<orchestrator, storage, citations, limiter, searches, scraper, call, optimizer, queries, buffers, cleanup, dorks, tracking, cache, shared>>

\* academic_researcher.py 40 and 143-199: the keywords; every exception is
\* caught and a list of keywords is returned whatever the reply was.
AcademicKeywords ==
    /\ unit.name = "research_academic_papers_with_dorks"
    /\ unit.pc = "called"
    /\ unit' = [unit EXCEPT !.pc = "dorks"]
    /\ UNCHANGED <<orchestrator, storage, citations, limiter, searches, scraper, call, optimizer, queries, buffers, cleanup, dorks, tracking, cache, shared>>

\* academic_researcher.py 43-68: the dorks are processed inside a try; an
\* exception of a dork gives {"academic_pdfs": []}.
AcademicDorks ==
    /\ unit.name = "research_academic_papers_with_dorks"
    /\ unit.pc = "dorks"
    /\ unit' = [unit EXCEPT !.pc = "returned", !.result = "dict"]
    /\ UNCHANGED <<orchestrator, storage, citations, limiter, searches, scraper, call, optimizer, queries, buffers, cleanup, dorks, tracking, cache, shared>>

\* subtopic_researcher.py 17-356: the whole body is in a try; the except
\* clause returns the fallback section.
SubtopicBody ==
    /\ unit.name = "research_subtopic"
    /\ unit.pc = "called"
    /\ unit' = [unit EXCEPT !.pc = "returned", !.result = "dict"]
    /\ UNCHANGED <<orchestrator, storage, citations, limiter, searches, scraper, call, optimizer, queries, buffers, cleanup, dorks, tracking, cache, shared>>

InitUnits ==
    /\ InitWith(NoFile)
    /\ unit \in UnitCalls
    /\ StorageInit
    /\ CitationInit
    /\ LimiterInit
    /\ SearchInit
    /\ ScraperInit
    /\ CallInit
    /\ OptimizerInit
    /\ QueryInit
    /\ BufferInit
    /\ CleanupInit
    /\ DorkInit
    /\ TrackingInit
    /\ CacheInit
    /\ SharedInit

NextUnits ==
    \/ IdentifyStart \/ IdentifyPrompt \/ IdentifyParse
    \/ AcademicKeywords \/ AcademicDorks
    \/ SubtopicBody

SpecUnits == InitUnits /\ [][NextUnits]_vars

(* ---------------------- ArticleStorage: the calls --------------------- *)

\* article_storage.py 36: `metadata or {}`.
MetadataOrEmpty(metadata) == IF metadata = "None" THEN "empty" ELSE metadata

has_article(url) == hash_url(url) \in DOMAIN articles

\* article_storage.py 27-47: the text file of the id is written, the
\* record of the id in the index is replaced, the id is returned.
store_article(url, content, metadata) ==
    LET article_id == hash_url(url)
        article_data == [id |-> article_id, url |-> url,
                         timestamp |-> now,
                         metadata |-> MetadataOrEmpty(metadata),
                         summary |-> NoSummary]
    IN  /\ content_files' = (article_id :> content) @@ content_files
        /\ articles' = (article_id :> article_data) @@ articles
        /\ stores' = [stores EXCEPT ![url] = @ + 1]
        /\ last_call' = [op |-> "store_article", url |-> url,
                         content |-> content, metadata |-> metadata,
                         ret |-> article_id]

\* article_storage.py 83-91.
add_summary_to_article(article_id, summary) ==
    /\ articles' =
          IF article_id \in DOMAIN articles
          THEN [articles EXCEPT ![article_id].summary = summary]
          ELSE articles
    /\ last_call' = [op |-> "add_summary_to_article", url |-> 0,
                     content |-> 0, metadata |-> "None",
                     ret |-> (article_id \in DOMAIN articles)]

\* store_article with an id taken from the number of stored records
\* instead of the url.
StoreArticleFreshId ==
    \E url \in Urls, content \in Contents, metadata \in Metadatas :
        /\ stores[url] < MaxStores
        /\ LET article_id == <<"seq", Cardinality(DOMAIN articles) + 1>>
           IN  /\ content_files' = (article_id :> content) @@ content_files
               /\ articles' = (article_id :>
                                 [id |-> article_id, url |-> url,
                                  timestamp |-> now,
                                  metadata |-> MetadataOrEmpty(metadata),
                                  summary |-> NoSummary]) @@ articles
               /\ stores' = [stores EXCEPT ![url] = @ + 1]
               /\ last_call' = [op |-> "store_article", url |-> url,
                                content |-> content, metadata |-> metadata,
                                ret |-> article_id]
        /\ UNCHANGED <<worker, summarize_calls>>
        /\ UNCHANGED <<orchestrator, unit, citations, limiter, searches, scraper, call, optimizer, queries, buffers, cleanup, dorks, tracking, cache, shared>>

\* A caller stores an article.
StoreArticle ==
    \E url \in Urls, content \in Contents, metadata \in Metadatas :
        /\ stores[url] < MaxStores
        /\ store_article(url, content, metadata)
        /\ UNCHANGED <<worker, summarize_calls>>
        /\ UNCHANGED <<orchestrator, unit, citations, limiter, searches, scraper, call, optimizer, queries, buffers, cleanup, dorks, tracking, cache, shared>>

\* A caller attaches a summary to an id, stored or not.
AddSummary ==
    \E url \in Urls, summary \in 1..MaxSummaries :
        /\ add_summary_to_article(hash_url(url), summary)
        /\ UNCHANGED <<content_files, stores, worker, summarize_calls>>
        /\ UNCHANGED <<orchestrator, unit, citations, limiter, searches, scraper, call, optimizer, queries, buffers, cleanup, dorks, tracking, cache, shared>>

InitStorage == InitWith(NoFile) /\ ComponentsIdle

NextStorage == StoreArticle \/ AddSummary

SpecStorage == InitStorage /\ [][NextStorage]_vars

(* ------------- Research units sharing the ArticleStorage -------------- *)

\* subtopic_researcher.py 253-256 and 264-268: a unit takes a search
\* result.  A stored article with a summary is reused; a stored article
\* without one has its summary computed (260); an unknown url is scraped.
WorkerCheck ==
    \E w \in Workers, url \in Urls :
        /\ worker[w].pc = "idle"
        /\ summarize_calls[url] < MaxSummaries
        /\ IF has_article(url)
           THEN IF articles[hash_url(url)].summary # NoSummary
                THEN UNCHANGED <<worker, summarize_calls>>
                ELSE /\ worker' = [worker EXCEPT ![w] =
                                     [pc |-> "summarizing", url |-> url]]
                     /\ summarize_calls' =
                            [summarize_calls EXCEPT ![url] = @ + 1]
           ELSE /\ worker' = [worker EXCEPT ![w] =
                                [pc |-> "scraping", url |-> url]]
                /\ UNCHANGED summarize_calls
        /\ UNCHANGED <<articles, content_files, last_call, stores>>
        /\ UNCHANGED <<orchestrator, unit, citations, limiter, searches, scraper, call, optimizer, queries, buffers, cleanup, dorks, tracking, cache, shared>>

\* subtopic_researcher.py 266-283: the scrape returns; an empty text skips
\* the result, any other text is stored and its summary is computed.
WorkerScraped ==
    \E w \in Workers, content \in Contents \cup {0} :
        /\ worker[w].pc = "scraping"
        /\ IF content = 0
           THEN /\ worker' = [worker EXCEPT ![w] = [pc |-> "idle", url |-> 0]]
                /\ UNCHANGED <<articles, content_files, last_call, stores,
                               summarize_calls>>
           ELSE /\ stores[worker[w].url] < MaxStores
                /\ summarize_calls[worker[w].url] < MaxSummaries
                /\ store_article(worker[w].url, content, "dict")
                /\ worker' = [worker EXCEPT ![w].pc = "summarizing"]
                /\ summarize_calls' =
                       [summarize_calls EXCEPT ![worker[w].url] = @ + 1]
        /\ UNCHANGED <<orchestrator, unit, citations, limiter, searches, scraper, call, optimizer, queries, buffers, cleanup, dorks, tracking, cache, shared>>

\* subtopic_researcher.py 140-156: the Wikipedia text of a subtopic is
\* stored when its pseudo-url is unknown, and summarized in either case.
WorkerWikipedia ==
    \E w \in Workers, url \in Urls, content \in Contents :
        /\ worker[w].pc = "idle"
        /\ summarize_calls[url] < MaxSummaries
        /\ IF has_article(url)
           THEN UNCHANGED <<articles, content_files, last_call, stores>>
           ELSE /\ stores[url] < MaxStores
                /\ store_article(url, content, "dict")
        /\ worker' = [worker EXCEPT ![w] = [pc |-> "summarizing", url |-> url]]
        /\ summarize_calls' = [summarize_calls EXCEPT ![url] = @ + 1]
        /\ UNCHANGED <<orchestrator, unit, citations, limiter, searches, scraper, call, optimizer, queries, buffers, cleanup, dorks, tracking, cache, shared>>

\* subtopic_researcher.py 157, 261 and 284: the summary arrives and is
\* attached to the article.
WorkerSummarized ==
    \E w \in Workers, summary \in 1..MaxSummaries :
        /\ worker[w].pc = "summarizing"
        /\ add_summary_to_article(hash_url(worker[w].url), summary)
        /\ worker' = [worker EXCEPT ![w] = [pc |-> "idle", url |-> 0]]
        /\ UNCHANGED <<content_files, stores, summarize_calls>>
        /\ UNCHANGED <<orchestrator, unit, citations, limiter, searches, scraper, call, optimizer, queries, buffers, cleanup, dorks, tracking, cache, shared>>

NextSummaries ==
    WorkerCheck \/ WorkerScraped \/ WorkerWikipedia \/ WorkerSummarized

SpecSummaries == InitStorage /\ [][NextSummaries]_vars

(* ------------------------- Citation: the calls ------------------------ *)

\* citation.py 203-204: the citation_number add_reference leaves on the
\* reference object it is given: the counter for a url not yet registered,
\* nothing (the object keeps None) for a registered url.
NumberGiven(url) ==
    IF url \in DOMAIN citation_references THEN None ELSE citation_counter

\* add_reference without the test for a registered url.
add_reference_renumbering(url) ==
    /\ citation_references' = (url :> citation_counter) @@ citation_references
    /\ citation_counter' = citation_counter + 1

\* citation.py 201-208.
add_reference(url) ==
    IF url \notin DOMAIN citation_references
    THEN /\ citation_references' = (url :> citation_counter) @@ citation_references
         /\ citation_counter' = citation_counter + 1
    ELSE UNCHANGED <<citation_references, citation_counter>>

\* A caller adds a reference for a url.
AddReference ==
    \E url \in Urls :
        /\ adds[url] < MaxAdds
        /\ add_reference(url)
        /\ adds' = [adds EXCEPT ![url] = @ + 1]
        /\ UNCHANGED <<references, snapshot_references>>
        /\ UNCHANGED <<orchestrator, unit, storage, limiter, searches, scraper, call, optimizer, queries, buffers, cleanup, dorks, tracking, cache, shared>>

\* subtopic_researcher.py 285-293 (and the same lines of the other units):
\* a unit accepts a url.  A new SourceReference, whose citation_number is
\* None, takes the url's place in the session's references and is handed
\* to add_reference.
AcceptUrl ==
    \E url \in Urls :
        /\ adds[url] < MaxAdds
        /\ references' = (url :> NumberGiven(url)) @@ references
        /\ add_reference(url)
        /\ adds' = [adds EXCEPT ![url] = @ + 1]
        /\ UNCHANGED snapshot_references
        /\ UNCHANGED <<orchestrator, unit, storage, limiter, searches, scraper, call, optimizer, queries, buffers, cleanup, dorks, tracking, cache, shared>>

\* researcher.py 167: save_research_data persists the session's references
\* with the citation_number each of them carries.
SaveReferences ==
    /\ snapshot_references' = references
    /\ UNCHANGED <<citation_references, citation_counter, references, adds>>
    /\ UNCHANGED <<orchestrator, unit, storage, limiter, searches, scraper, call, optimizer, queries, buffers, cleanup, dorks, tracking, cache, shared>>

InitCitation == InitWith(NoFile) /\ ComponentsIdle

NextCitation == AddReference \/ AcceptUrl \/ SaveReferences

SpecCitation == InitCitation /\ [][NextCitation]_vars

(* --------------------------- RateLimitHandler -------------------------- *)

\* rate_limiter.py 32-39.
should_wait ==
    IF clock - service_last_call < MinInterval
    THEN MinInterval - (clock - service_last_call)
    ELSE 0

\* rate_limiter.py 44-48: a call starts; without a wait it stamps at
\* once, otherwise it suspends in asyncio.sleep(wait_time).
WaitIfNeeded ==
    \E c \in Callers :
        /\ waiter[c].pc # "sleeping"
        /\ IF should_wait > 0
           THEN /\ waiter' = [waiter EXCEPT ![c] =
                                 [pc |-> "sleeping", wake |-> clock + should_wait,
                                  seen |-> service_last_call,
                                  prev |-> 0, stamp |-> 0]]
                /\ UNCHANGED service_last_call
           ELSE /\ waiter' = [waiter EXCEPT ![c] =
                                 [pc |-> "returned", wake |-> 0,
                                  seen |-> service_last_call,
                                  prev |-> service_last_call,
                                  stamp |-> clock]]
                /\ service_last_call' = clock
        /\ UNCHANGED clock
        /\ UNCHANGED <<orchestrator, unit, storage, citations, searches, scraper, call, optimizer, queries, buffers, cleanup, dorks, tracking, cache, shared>>

\* A sleep that ends before its time is over.
SleepReturnsEarly ==
    \E c \in Callers :
        /\ waiter[c].pc = "sleeping"
        /\ waiter' = [waiter EXCEPT ![c].pc = "returned",
                                    ![c].prev = service_last_call,
                                    ![c].stamp = clock]
        /\ service_last_call' = clock
        /\ UNCHANGED clock
        /\ UNCHANGED <<orchestrator, unit, storage, citations, searches, scraper, call, optimizer, queries, buffers, cleanup, dorks, tracking, cache, shared>>

\* rate_limiter.py 47-48: the sleep is over, the call stamps
\* (update_last_call, 41-42) and returns.
SleepReturns ==
    \E c \in Callers :
        /\ waiter[c].pc = "sleeping"
        /\ clock >= waiter[c].wake
        /\ waiter' = [waiter EXCEPT ![c].pc = "returned",
                                    ![c].prev = service_last_call,
                                    ![c].stamp = clock]
        /\ service_last_call' = clock
        /\ UNCHANGED clock
        /\ UNCHANGED <<orchestrator, unit, storage, citations, searches, scraper, call, optimizer, queries, buffers, cleanup, dorks, tracking, cache, shared>>

\* Time passes.
Tick ==
    /\ clock < MaxClock
    /\ clock' = clock + 1
    /\ UNCHANGED <<service_last_call, waiter>>
    /\ UNCHANGED <<orchestrator, unit, storage, citations, searches, scraper, call, optimizer, queries, buffers, cleanup, dorks, tracking, cache, shared>>

NextLimiter == WaitIfNeeded \/ SleepReturns \/ Tick

SpecLimiter == Init /\ [][NextLimiter]_vars

(* ------------------------------ SearchClient --------------------------- *)

\* What one attempt of google_search meets: no configured key
\* (random.choice raises before the request), a connection error, a
\* status 429, another status, a body without items, with an empty list
\* of items, with items, or any other exception.
Responses == {"no_keys", "client_error", "429", "error_status", "no_items",
              "empty_items", "items", "exception"}

\* search_client.py 90.
backoff_time_doubled(retry_count) == retry_count * BackoffFactor * 2

backoff_time(retry_count) == retry_count * BackoffFactor

\* search_client.py 31-68: a call starts; from the threshold on it goes
\* to combined_search without asking the primary provider.
SearchStart ==
    \E c \in Callers :
        /\ search[c].pc \in {"idle", "returned"}
        /\ search' = [search EXCEPT ![c] =
              [NoSearch EXCEPT !.pc =
                  IF cse_fallback_count >= FallbackThreshold
                  THEN "combined" ELSE "attempt"]]
        /\ UNCHANGED cse_fallback_count
        /\ UNCHANGED <<orchestrator, unit, storage, citations, limiter, scraper, call, optimizer, queries, buffers, cleanup, dorks, tracking, cache, shared>>

\* search_client.py 70-135: one turn of the retry loop.
SearchResponse ==
    \E c \in Callers, response \in Responses :
        LET s == search[c]
            sent == IF response = "no_keys" THEN s.requests
                    ELSE s.requests + 1
            retry == s.retry_count + 1
        IN  /\ s.pc = "attempt"
            /\ s.retry_count < max_retries
            /\ CASE response = "429" ->
                     IF retry < max_retries
                     THEN /\ search' = [search EXCEPT ![c] =
                                [s EXCEPT !.pc = "backoff", !.requests = sent,
                                          !.retry_count = retry,
                                          !.n429 = @ + 1,
                                          !.sleep = backoff_time(retry)]]
                          /\ UNCHANGED cse_fallback_count
                     ELSE /\ search' = [search EXCEPT ![c] =
                                [s EXCEPT !.pc = "combined", !.requests = sent,
                                          !.retry_count = retry,
                                          !.n429 = @ + 1]]
                          /\ cse_fallback_count' = cse_fallback_count + 1
                 [] response = "error_status" ->
                     /\ search' = [search EXCEPT ![c] =
                           [s EXCEPT !.pc = "combined", !.requests = sent]]
                     /\ cse_fallback_count' = cse_fallback_count + 1
                 [] response \in {"no_items", "exception", "no_keys"} ->
                     /\ search' = [search EXCEPT ![c] =
                           [s EXCEPT !.pc = "combined", !.requests = sent]]
                     /\ UNCHANGED cse_fallback_count
                 [] response = "empty_items" ->
                     /\ search' = [search EXCEPT ![c] =
                           [s EXCEPT !.pc = "returned", !.requests = sent,
                                     !.ret = "primary_empty"]]
                     /\ UNCHANGED cse_fallback_count
                 [] response = "items" ->
                     /\ search' = [search EXCEPT ![c] =
                           [s EXCEPT !.pc = "returned", !.requests = sent,
                                     !.ret = "primary"]]
                     /\ cse_fallback_count' = 0
                 [] response = "client_error" ->
                     /\ search' = [search EXCEPT ![c] =
                           [s EXCEPT !.pc = IF retry >= max_retries
                                            THEN "combined" ELSE "attempt",
                                     !.requests = sent,
                                     !.retry_count = retry]]
                     /\ UNCHANGED cse_fallback_count
            /\ UNCHANGED <<orchestrator, unit, storage, citations, limiter, scraper, call, optimizer, queries, buffers, cleanup, dorks, tracking, cache, shared>>

\* search_client.py 94-95: the backoff sleep is over, the loop continues.
BackoffOver ==
    \E c \in Callers :
        /\ search[c].pc = "backoff"
        /\ search' = [search EXCEPT ![c].pc = "attempt"]
        /\ UNCHANGED cse_fallback_count
        /\ UNCHANGED <<orchestrator, unit, storage, citations, limiter, scraper, call, optimizer, queries, buffers, cleanup, dorks, tracking, cache, shared>>

\* search_client.py 552-598: combined_search returns the merged list of
\* the alternates; when gathering them raises it returns what
\* duckduckgo_lite_search returns, which is [] on any exception (270-272).
CombinedReturns ==
    \E c \in Callers, providers \in {"results", "empty", "raise"},
       duck \in {"results", "empty", "raise"} :
        /\ search[c].pc = "combined"
        /\ search' = [search EXCEPT ![c].pc = "returned",
                                    ![c].ret =
              IF providers = "results" \/ (providers = "raise" /\ duck = "results")
              THEN "alternates" ELSE "alternates_empty"]
        /\ UNCHANGED cse_fallback_count
        /\ UNCHANGED <<orchestrator, unit, storage, citations, limiter, scraper, call, optimizer, queries, buffers, cleanup, dorks, tracking, cache, shared>>

NextSearch == SearchStart \/ SearchResponse \/ BackoffOver \/ CombinedReturns

SpecSearch == Init /\ [][NextSearch]_vars

(* ------------------------------- WebScraper ---------------------------- *)

\* What a scrape of a web page / of a .pdf url can meet.
PageMeets == {"ok", "navigation_error", "exception"}
PdfMeets == {"ok", "status_error", "timeout", "download_error", "no_text",
             "exception"}

\* web_scraper.py 15-72: the result of scrape_url for a web page.
scrape_page(met) ==
    CASE met = "ok" -> "text"
      [] met = "navigation_error" -> ""
      [] met = "exception" -> "Error scraping"

\* web_scraper.py 74-206: the result of extract_pdf_content.
extract_pdf_content(met) ==
    CASE met = "ok" -> "text"
      [] met = "status_error" -> "Failed to download PDF"
      [] met = "timeout" -> "Timeout while downloading PDF"
      [] met = "download_error" -> "Error downloading PDF"
      [] met = "no_text" -> "Failed to extract meaningful text"
      [] met = "exception" -> "Error extracting PDF content"

\* url_tracking.py 48-56 and web_scraper.py 15-72: the tracked scrape
\* counts the url and awaits scrape_url.
ScrapeUrl ==
    \E kind \in {"page", "pdf"} :
      \E met \in (IF kind = "page" THEN PageMeets ELSE PdfMeets) :
        /\ fetch.pc = "idle"
        /\ scrapes < MaxScrapes
        /\ scrapes' = scrapes + 1
        /\ fetch' = [pc |-> "scraped", kind |-> kind, met |-> met,
                     ret |-> IF kind = "page" THEN scrape_page(met)
                             ELSE extract_pdf_content(met)]
        /\ content_fetches' = IF fetch'.ret # "" THEN content_fetches + 1
                              ELSE content_fetches
        /\ UNCHANGED <<failed_scrapes, stored_content>>
        /\ UNCHANGED <<orchestrator, unit, storage, citations, limiter, searches, call, optimizer, queries, buffers, cleanup, dorks, tracking, cache, shared>>

\* url_tracking.py 57-69: a non-empty text is returned to the caller
\* unless persisting the counters raises; an empty one counts as a failed
\* scrape and None is returned.
TrackedReturn ==
    \E save \in {"ok", "raise"} :
        /\ fetch.pc = "scraped"
        /\ IF fetch.ret # "" /\ save = "ok"
           THEN /\ fetch' = [fetch EXCEPT !.pc = "tracked"]
                /\ UNCHANGED failed_scrapes
           ELSE /\ fetch' = [fetch EXCEPT !.pc = "tracked", !.ret = ""]
                /\ failed_scrapes' = failed_scrapes + 1
        /\ UNCHANGED <<scrapes, stored_content, content_fetches>>
        /\ UNCHANGED <<orchestrator, unit, storage, citations, limiter, searches, call, optimizer, queries, buffers, cleanup, dorks, tracking, cache, shared>>

\* subtopic_researcher.py 265-283: the unit skips an empty content and
\* stores any other as the article's content.
ContentHandled ==
    /\ fetch.pc = "tracked"
    /\ stored_content' = IF fetch.ret = "" THEN stored_content
                         ELSE stored_content \cup {fetch.ret}
    /\ fetch' = NoFetch
    /\ UNCHANGED <<scrapes, failed_scrapes, content_fetches>>
    /\ UNCHANGED <<orchestrator, unit, storage, citations, limiter, searches, call, optimizer, queries, buffers, cleanup, dorks, tracking, cache, shared>>

NextScraper == ScrapeUrl \/ TrackedReturn \/ ContentHandled

SpecScraper == Init /\ [][NextScraper]_vars

(* ----------------------- has_sufficient_research ---------------------- *)

\* The sessions with one call of a pure function pending, its argument
\* drawn from args.
InitCall(name, args) ==
    /\ InitWith(NoFile)
    /\ unit = UnitIdle
    /\ StorageInit /\ CitationInit /\ LimiterInit /\ SearchInit /\ ScraperInit
    /\ OptimizerInit /\ QueryInit /\ BufferInit /\ CleanupInit /\ DorkInit /\ TrackingInit
    /\ CacheInit /\ SharedInit
    /\ call \in [name : {name}, arg : args, done : {FALSE}, ret : {0}]

\* The collected data has_sufficient_research is given: the number of
\* sources of each kind and, per subtopic, the length of its section's
\* content (0: no entry), around each threshold.
CollectedData ==
    [rd : [research_results :
               [SubIdx -> {0, MinContentLen - 1, MinContentLen}]],
     src : [arxiv_papers : 0..MaxUnitItems, doi_papers : 0..MaxUnitItems,
            academic_pdfs : 0..MaxUnitItems,
            statistics_sources : 0..MaxUnitItems]]

HasSufficientResearch ==
    /\ call.name = "has_sufficient_research"
    /\ ~call.done
    /\ call' = [call EXCEPT !.done = TRUE,
                   !.ret = has_sufficient_research(call.arg.rd, call.arg.src)]
    /\ UNCHANGED <<orchestrator, unit, storage, citations, limiter, searches, scraper, optimizer, queries, buffers, cleanup, dorks, tracking, cache, shared>>

InitGates == InitCall("has_sufficient_research", CollectedData)

SpecGates == InitGates /\ [][HasSufficientResearch]_vars

(* ------------------------ ContentOptimizer.is_redundant --------------- *)

\* A content is a sequence of tokens: a word of MinRedundantLen lower-case
\* letters, the same word in upper case, a space, a comma.
Tokens == {"w", "W", " ", ","}
TextContents == UNION {[1..n -> Tokens] : n \in 0..MaxContentLen}

\* len(content).
content_len(content) ==
    Len(SelectSeq(content, LAMBDA t : t \in {"w", "W"})) * MinRedundantLen
        + Len(SelectSeq(content, LAMBDA t : t \in {" ", ","}))

\* content.lower()
lower(content) ==
    [i \in DOMAIN content |-> IF content[i] = "W" THEN "w" ELSE content[i]]

\* re.sub(r'\s+', ' ', content)
RECURSIVE collapse_whitespace(_)
collapse_whitespace(content) ==
    IF Len(content) < 2 THEN content
    ELSE IF content[1] = " " /\ content[2] = " "
         THEN collapse_whitespace(Tail(content))
         ELSE <<content[1]>> \o collapse_whitespace(Tail(content))

\* re.sub(r'[^\w\s]', '', content)
remove_punctuation(content) == SelectSeq(content, LAMBDA t : t # ",")

\* content.strip()
RECURSIVE strip(_)
strip(content) ==
    IF content = <<>> THEN content
    ELSE IF content[1] = " " THEN strip(Tail(content))
    ELSE IF content[Len(content)] = " "
         THEN strip(SubSeq(content, 1, Len(content) - 1))
         ELSE content

\* content_optimizer.py 153-159.
normalize_content(content) ==
    strip(remove_punctuation(collapse_whitespace(lower(content))))

\* The content without its case, its punctuation and the amount of its
\* whitespace: two contents that differ only in these have the same.
CaseSpacePunctuationFree(content) ==
    strip(collapse_whitespace(remove_punctuation(lower(content))))

\* content_optimizer.py 75-86.  The hash of a normalized content is
\* taken as the content itself.
IsRedundant ==
    \E content \in TextContents :
        LET content_hash == normalize_content(content)
            ret == \/ content = <<>>
                   \/ content_len(content) < MinRedundantLen
                   \/ content_hash \in processed_content_hashes
        IN  /\ redundancy.n < MaxChecks
            /\ processed_content_hashes' =
                  IF ret THEN processed_content_hashes
                  ELSE processed_content_hashes \cup {content_hash}
            /\ seen_contents' =
                  seen_contents \cup {CaseSpacePunctuationFree(content)}
            /\ redundancy' =
                  [n |-> redundancy.n + 1, content |-> content,
                   known |-> CaseSpacePunctuationFree(content) \in seen_contents,
                   ret |-> ret]
            /\ UNCHANGED <<orchestrator, unit, storage, citations, limiter, searches, scraper, call, queries, buffers, cleanup, dorks, tracking, cache, shared>>

SpecRedundant == Init /\ [][IsRedundant]_vars

(* ------------------------------ process_query -------------------------- *)

\* researcher.py 195-203 and 211-213: a unit calls process_query; a fresh
\* cache entry is returned at once, otherwise the call goes for a permit.
ProcessQuery ==
    \E c \in 1..MaxQueryCallers, cached \in BOOLEAN :
        /\ query[c] \in {"idle", "returned"}
        /\ query' = [query EXCEPT ![c] = IF cached THEN "returned" ELSE "waiting"]
        /\ UNCHANGED semaphore
        /\ UNCHANGED <<orchestrator, unit, storage, citations, limiter, searches, scraper, call, optimizer, buffers, cleanup, dorks, tracking, cache, shared>>

\* Entering the block without taking a permit.
QueryEntersUnguarded ==
    \E c \in 1..MaxQueryCallers :
        /\ query[c] = "waiting"
        /\ query' = [query EXCEPT ![c] = "in_flight"]
        /\ semaphore' = IF semaphore > 0 THEN semaphore - 1 ELSE 0
        /\ UNCHANGED <<orchestrator, unit, storage, citations, limiter, searches, scraper, call, optimizer, buffers, cleanup, dorks, tracking, cache, shared>>

\* researcher.py 205-206: `async with self.semaphore` takes a permit when
\* one is free, and the text-generation call starts.
QueryEnters ==
    \E c \in 1..MaxQueryCallers :
        /\ query[c] = "waiting"
        /\ semaphore > 0
        /\ semaphore' = semaphore - 1
        /\ query' = [query EXCEPT ![c] = "in_flight"]
        /\ UNCHANGED <<orchestrator, unit, storage, citations, limiter, searches, scraper, call, optimizer, buffers, cleanup, dorks, tracking, cache, shared>>

\* researcher.py 206-209: the call returns or raises; leaving the block
\* gives the permit back in both cases.
QueryLeaves ==
    \E c \in 1..MaxQueryCallers, outcome \in {"result", "raise"} :
        /\ query[c] = "in_flight"
        /\ semaphore' = semaphore + 1
        /\ query' = [query EXCEPT ![c] =
                        IF outcome = "result" THEN "returned" ELSE "idle"]
        /\ UNCHANGED <<orchestrator, unit, storage, citations, limiter, searches, scraper, call, optimizer, buffers, cleanup, dorks, tracking, cache, shared>>

NextQueries == ProcessQuery \/ QueryEnters \/ QueryLeaves

SpecQueries == Init /\ [][NextQueries]_vars

(* -------------------------------- add_log ------------------------------ *)

\* What the research writes to a buffer while it runs.
LogMessages == {"Navigating to URL", "Searching"}

\* An entry of the log (async_buffer.py 41-46); the id and the timestamp
\* are fresh values no code of the session compares.
log_entry(log, high_level) == [message |-> log, high_level |-> high_level]

\* The call of add_log is in progress at lines 48-50, where logger.info
\* and print can call add_log again (the log handler of app.py 133-136, the
\* captured standard output of app.py 33-40).
InsideAddLog ==
    /\ add_log_frames # <<>>
    /\ add_log_frames[Len(add_log_frames)].pc = "try"

\* add_log without the check of the flag.
add_log_unguarded(log, high_level) ==
    /\ add_log_frames = <<>> \/ InsideAddLog
    /\ in_add_log' = TRUE
    /\ add_log_frames' =
          Append(add_log_frames,
                 [log |-> log, high_level |-> high_level, pc |-> "try",
                  ret |-> "none", outer |-> add_log_frames = <<>>])
    /\ UNCHANGED <<logs, add_log_calls>>

\* async_buffer.py 28-34: a call made while the flag is up returns None
\* before the try block; otherwise the flag goes up and the try block is
\* entered.
add_log(log, high_level) ==
    /\ add_log_frames = <<>> \/ InsideAddLog
    /\ IF in_add_log
       THEN /\ add_log_calls.noop < MaxNested
            /\ add_log_calls' = [add_log_calls EXCEPT !.noop = @ + 1]
            /\ UNCHANGED <<logs, in_add_log, add_log_frames>>
       ELSE /\ in_add_log' = TRUE
            /\ add_log_frames' =
                  Append(add_log_frames,
                         [log |-> log, high_level |-> high_level,
                          pc |-> "try", ret |-> "none",
                          outer |-> add_log_frames = <<>>])
            /\ UNCHANGED <<logs, add_log_calls>>

\* A caller of the buffer, or the output of an add_log in progress, calls
\* add_log.
AddLogCalled ==
    \E log \in LogMessages, high_level \in BOOLEAN :
        /\ Len(logs) < MaxLogs
        /\ add_log(log, high_level)
        /\ UNCHANGED <<session, status_query>>
        /\ UNCHANGED <<orchestrator, unit, storage, citations, limiter, searches, scraper, call, optimizer, queries, cleanup, dorks, tracking, cache, shared>>

\* async_buffer.py 35-54: the entry is built, logged, printed and appended;
\* the return value is the entry.
AddLogAppend ==
    /\ InsideAddLog
    /\ LET f == add_log_frames[Len(add_log_frames)]
       IN /\ logs' = Append(logs, log_entry(f.log, f.high_level))
          /\ add_log_frames' =
                [add_log_frames EXCEPT ![Len(add_log_frames)] =
                    [f EXCEPT !.pc = "finally", !.ret = "entry"]]
    /\ UNCHANGED <<in_add_log, add_log_calls, session, status_query>>
    /\ UNCHANGED <<orchestrator, unit, storage, citations, limiter, searches, scraper, call, optimizer, queries, cleanup, dorks, tracking, cache, shared>>

\* async_buffer.py 35-50: a statement before the append raises (print to a
\* closed stream, a log that is not a string given to the logger).
AddLogRaises ==
    /\ InsideAddLog
    /\ add_log_calls.raised < MaxRaised
    /\ LET f == add_log_frames[Len(add_log_frames)]
       IN add_log_frames' =
             [add_log_frames EXCEPT ![Len(add_log_frames)] =
                 [f EXCEPT !.pc = "finally", !.ret = "raise"]]
    /\ UNCHANGED <<logs, in_add_log, add_log_calls, session, status_query>>
    /\ UNCHANGED <<orchestrator, unit, storage, citations, limiter, searches, scraper, call, optimizer, queries, cleanup, dorks, tracking, cache, shared>>

\* async_buffer.py 55-56: the finally block lowers the flag, after the
\* return and after an exception alike, and the call ends.
AddLogFinally ==
    /\ add_log_frames # <<>>
    /\ LET f == add_log_frames[Len(add_log_frames)]
       IN /\ f.pc = "finally"
          /\ in_add_log' = FALSE
          /\ add_log_frames' = SubSeq(add_log_frames, 1, Len(add_log_frames) - 1)
          /\ add_log_calls' =
                IF ~f.outer THEN add_log_calls
                ELSE IF f.ret = "entry"
                     THEN [add_log_calls EXCEPT !.entries = @ + 1]
                     ELSE [add_log_calls EXCEPT !.raised = @ + 1]
    /\ UNCHANGED <<logs, session, status_query>>
    /\ UNCHANGED <<orchestrator, unit, storage, citations, limiter, searches, scraper, call, optimizer, queries, cleanup, dorks, tracking, cache, shared>>

NextBuffer == AddLogCalled \/ AddLogAppend \/ AddLogRaises \/ AddLogFinally

SpecBuffer == Init /\ [][NextBuffer]_vars

(* ---------------------------- session status --------------------------- *)

\* app.py 72-112: a session is created with a new buffer, the handler logs
\* three entries and starts the thread for the action type.
StartResearch ==
    \E action_type \in {"write_paper", "guided_research"} :
        /\ session.status = "none"
        /\ session' = [status |-> "initializing", action_type |-> action_type,
                       pending |-> <<>>]
        /\ logs' = <<log_entry("Starting research process...", TRUE),
                     log_entry("Session ID", TRUE),
                     log_entry("Initializing research process...", TRUE)>>
        /\ UNCHANGED <<in_add_log, add_log_frames, add_log_calls, status_query>>
    /\ UNCHANGED <<orchestrator, unit, storage, citations, limiter, searches, scraper, call, optimizer, queries, cleanup, dorks, tracking, cache, shared>>

\* app.py 114-125 and 183-191: the thread starts capturing the output and
\* marks the session as researching.
RunStarts ==
    /\ session.status = "initializing"
    /\ session' = [session EXCEPT !.status = "researching"]
    /\ UNCHANGED <<logs, in_add_log, add_log_frames, add_log_calls, status_query>>
    /\ UNCHANGED <<orchestrator, unit, storage, citations, limiter, searches, scraper, call, optimizer, queries, cleanup, dorks, tracking, cache, shared>>

\* app.py 127-142 and 198-213: while the research runs, its navigation
\* callback, its log handler and its captured output call add_log.
ResearchLogs ==
    /\ session.status = "researching"
    /\ AddLogCalled

\* The entries the thread logs after it set the status: app.py 162-163 and
\* 221 on completion, 178 and 230 on an error, 171-173 and 223-226 when the
\* PDF file exists.
EndMessages(action_type, status, pdf) ==
    IF status = "error"
    THEN IF action_type = "write_paper"
         THEN <<"Error in research process">>
         ELSE <<"Error in guided research process">>
    ELSE (IF action_type = "write_paper"
          THEN <<"Step 10: Research completed successfully",
                 "Research completed successfully!">>
          ELSE <<"Guided research completed successfully!">>)
         \o (IF pdf THEN <<"PDF document generated successfully">> ELSE <<>>)

\* app.py 160 and 219, 175-177 and 227-229: the research returned or raised,
\* and the thread sets the status of the session; the entries about it are
\* logged afterwards.
SessionEnds ==
    \E status \in {"completed", "error"}, pdf \in BOOLEAN :
        /\ session.status = "researching"
        /\ add_log_frames = <<>>
        /\ session' = [session EXCEPT
                          !.status = status,
                          !.pending = EndMessages(session.action_type, status, pdf)]
        /\ UNCHANGED <<logs, in_add_log, add_log_frames, add_log_calls, status_query>>
    /\ UNCHANGED <<orchestrator, unit, storage, citations, limiter, searches, scraper, call, optimizer, queries, cleanup, dorks, tracking, cache, shared>>

\* app.py 162-163, 173, 178, 221, 226, 230: the thread logs the next entry
\* about the end of the research.
EndLogged ==
    /\ session.pending # <<>>
    /\ add_log_frames = <<>>
    /\ add_log(Head(session.pending), TRUE)
    /\ session' = [session EXCEPT !.pending = Tail(@)]
    /\ UNCHANGED status_query
    /\ UNCHANGED <<orchestrator, unit, storage, citations, limiter, searches, scraper, call, optimizer, queries, cleanup, dorks, tracking, cache, shared>>

\* app.py 323: `"Research completed successfully" in message`, a
\* case-sensitive test, over the messages a session logs.
HasCompletionText(message) ==
    message \in {"Step 10: Research completed successfully",
                 "Research completed successfully!"}

\* app.py 247-346: the status query of a session. get_logs returns the list
\* of the buffer itself (async_buffer.py 61-62); every entry has an id
\* already (async_buffer.py 39-43), so 256-258 change nothing; for a
\* completed session, 320-335 raise the flag of the entries with the
\* completion text and, when there is none, append such an entry to the
\* list. The progress fields set at 296-300 are the researcher's.
SessionStatus ==
    /\ session.status # "none"
    /\ status_query.n < MaxQueries
    /\ LET all_logs == logs
           completion_found ==
               \E i \in 1..Len(all_logs) : HasCompletionText(all_logs[i].message)
           flagged ==
               [i \in 1..Len(all_logs) |->
                   IF HasCompletionText(all_logs[i].message)
                   THEN [all_logs[i] EXCEPT !.high_level = TRUE]
                   ELSE all_logs[i]]
           after ==
               IF session.status # "completed" THEN all_logs
               ELSE IF completion_found THEN flagged
               ELSE Append(all_logs,
                           log_entry("Research completed successfully!", TRUE))
       IN /\ logs' = after
          /\ status_query' = [n |-> status_query.n + 1, before |-> logs,
                              after |-> after]
    /\ UNCHANGED <<in_add_log, add_log_frames, add_log_calls, session>>
    /\ UNCHANGED <<orchestrator, unit, storage, citations, limiter, searches, scraper, call, optimizer, queries, cleanup, dorks, tracking, cache, shared>>

\* The calls of add_log of a session are followed to their return.
NextSession ==
    \/ StartResearch \/ RunStarts \/ ResearchLogs \/ SessionEnds \/ EndLogged
    \/ AddLogAppend \/ AddLogFinally \/ SessionStatus

SpecSession == Init /\ [][NextSession]_vars

(* ------------------------- cleanup_old_articles ------------------------ *)

\* Half a day passes.
TimePasses ==
    /\ now < MaxDays * SecondsPerDay
    /\ now' = now + SecondsPerDay \div 2
    /\ UNCHANGED cleanup_call
    /\ UNCHANGED <<orchestrator, unit, storage, citations, limiter, searches, scraper, call, optimizer, queries, buffers, dorks, tracking, cache, shared>>

\* A unit stores the text it fetched for a url (subtopic_researcher.py
\* 270-282); the record takes the time of the call (article_storage.py 35).
CacheArticle ==
    \E url \in Urls :
        /\ stores[url] < MaxStores
        /\ store_article(url, 1, "dict")
        /\ UNCHANGED <<worker, summarize_calls>>
        /\ UNCHANGED <<orchestrator, unit, citations, limiter, searches, scraper, call, optimizer, queries, buffers, cleanup, dorks, tracking, cache, shared>>

\* The restriction of an index or of the content files to some ids.
Keep(f, ids) == [id \in ids |-> f[id]]

\* cleanup_old_articles that also removes a record exactly at the cutoff.
articles_to_remove_inclusive(index, days) ==
    {article_id \in DOMAIN index :
        index[article_id].timestamp <= now - days * SecondsPerDay}

\* article_storage.py 108-114: the ids of the records with a timestamp
\* before the cutoff.
articles_to_remove(index, days) ==
    {article_id \in DOMAIN index :
        index[article_id].timestamp < now - days * SecondsPerDay}

\* article_storage.py 107-124: the content file of each such id is
\* removed when it exists, the record is deleted from the index, the index
\* is saved when something was removed; the result is the number of ids.
CleanupOldArticles ==
    \E days \in 0..MaxDays :
        /\ cleanup_call.n < MaxCleanups
        /\ LET removed == articles_to_remove(articles, days)
           IN /\ content_files' =
                    Keep(content_files, DOMAIN content_files \ removed)
              /\ articles' = Keep(articles, DOMAIN articles \ removed)
              /\ cleanup_call' =
                    [n |-> cleanup_call.n + 1, days |-> days, at |-> now,
                     articles |-> articles, content_files |-> content_files,
                     articles_after |-> articles',
                     content_files_after |-> content_files',
                     ret |-> Cardinality(removed)]
        /\ UNCHANGED <<last_call, stores, worker, summarize_calls, now>>
        /\ UNCHANGED <<orchestrator, unit, citations, limiter, searches, scraper, call, optimizer, queries, buffers, dorks, tracking, cache, shared>>

NextCleanup == CacheArticle \/ TimePasses \/ CleanupOldArticles

SpecCleanup == Init /\ [][NextCleanup]_vars

(* ---------------- _process_academic_dork, _process_statistics_dork ----- *)

\* The lengths of the text a fetch returns: the empty text of a failed
\* fetch, a text long enough for the statistics unit only, and one long
\* enough for both units.
FetchedLens == {0, MinStatsContentLen, MinContentLen}

\* What google_search returns to a dork task, cut to the results the task
\* looks at: distinct links, in any order.
SearchResults ==
    {r \in UNION {[1..n -> Urls] : n \in 0..ResultsPerDork} :
        \A j, k \in 1..Len(r) : r[j] = r[k] => j = k}

\* The list of a unit.
ItemsOf(u) == IF u = "academic" THEN academic_pdfs ELSE statistics_sources

\* academic_researcher.py 83 and statistics_researcher.py 91: the url is
\* in the list of the unit already.
Listed(u, url) == \E k \in 1..Len(ItemsOf(u)) : ItemsOf(u)[k].url = url

\* academic_researcher.py 103 and statistics_researcher.py 106.
MinLenOf(u) == IF u = "academic" THEN MinContentLen ELSE MinStatsContentLen

\* academic_researcher.py 128-138 and statistics_researcher.py 132-142: the
\* item is appended to the list of the unit, and the loop goes on unless
\* the list is full.
AppendItem(t, url, content) ==
    LET u == UnitOf(t)
        item == [url |-> url, content |-> Min(content, MaxItemContent)]
        full == Len(ItemsOf(u)) + 1 >=
                    (IF u = "academic" THEN AcademicBreak ELSE StatisticsBreak)
    IN /\ IF u = "academic"
          THEN /\ academic_pdfs' = Append(academic_pdfs, item)
               /\ UNCHANGED statistics_sources
          ELSE /\ statistics_sources' = Append(statistics_sources, item)
               /\ UNCHANGED academic_pdfs
       /\ dork' = [dork EXCEPT ![t] =
                      [@ EXCEPT !.pc = IF full THEN "done" ELSE "loop",
                                !.i = @ + 1, !.content = 0]]

\* academic_researcher.py 70-78 and statistics_researcher.py 76-85: the
\* search of the dork returns its results.
DorkSearch ==
    \E t \in DorkTasks, results \in SearchResults :
        /\ dork[t].pc = "idle"
        /\ dork' = [dork EXCEPT ![t] =
                       [pc |-> IF results = <<>> THEN "done" ELSE "loop",
                        results |-> results, i |-> 1, content |-> 0]]
        /\ UNCHANGED <<academic_pdfs, statistics_sources, fetches>>
        /\ UNCHANGED <<orchestrator, unit, storage, citations, limiter, searches, scraper, call, optimizer, queries, buffers, cleanup, tracking, cache, shared>>

\* academic_researcher.py 79-102 and statistics_researcher.py 86-105: the
\* next result. A url in the list of the unit is skipped; a stored article
\* is reused, with its summary or after a new one is asked for; any other
\* url is given to scrape_url.
DorkNext ==
    \E t \in DorkTasks :
        /\ dork[t].pc = "loop"
        /\ IF dork[t].i > Len(dork[t].results)
           THEN /\ dork' = [dork EXCEPT ![t].pc = "done"]
                /\ UNCHANGED <<academic_pdfs, statistics_sources, fetches>>
           ELSE LET url == dork[t].results[dork[t].i]
                    article_id == hash_url(url)
                IN IF Listed(UnitOf(t), url)
                   THEN /\ dork' = [dork EXCEPT ![t].i = @ + 1]
                        /\ UNCHANGED <<academic_pdfs, statistics_sources,
                                       fetches>>
                   ELSE IF has_article(url)
                   THEN IF articles[article_id].summary # NoSummary
                        THEN /\ AppendItem(t, url, content_files[article_id])
                             /\ UNCHANGED fetches
                        ELSE /\ dork' = [dork EXCEPT ![t] =
                                   [@ EXCEPT !.pc = "summarizing",
                                             !.content = content_files[article_id]]]
                             /\ UNCHANGED <<academic_pdfs, statistics_sources,
                                            fetches>>
                   ELSE /\ dork' = [dork EXCEPT ![t].pc = "scraping"]
                        /\ fetches' = [fetches EXCEPT ![url] = @ + 1]
                        /\ UNCHANGED <<academic_pdfs, statistics_sources>>
        /\ UNCHANGED <<orchestrator, unit, storage, citations, limiter, searches, scraper, call, optimizer, queries, buffers, cleanup, tracking, cache, shared>>

\* academic_researcher.py 102-116 and statistics_researcher.py 105-119:
\* scrape_url returns; a text that is empty or shorter than the minimum of
\* the unit is dropped, any other text is stored and its summary asked for.
DorkScraped ==
    \E t \in DorkTasks, content \in FetchedLens :
        /\ dork[t].pc = "scraping"
        /\ IF content < MinLenOf(UnitOf(t))
           THEN /\ dork' = [dork EXCEPT ![t] =
                              [@ EXCEPT !.pc = "loop", !.i = @ + 1]]
                /\ UNCHANGED <<articles, content_files, last_call, stores>>
           ELSE /\ store_article(dork[t].results[dork[t].i], content, "dict")
                /\ dork' = [dork EXCEPT ![t] =
                              [@ EXCEPT !.pc = "summarizing",
                                        !.content = content]]
        /\ UNCHANGED <<worker, summarize_calls>>
        /\ UNCHANGED <<academic_pdfs, statistics_sources, fetches>>
        /\ UNCHANGED <<orchestrator, unit, citations, limiter, searches, scraper, call, optimizer, queries, buffers, cleanup, tracking, cache, shared>>

\* academic_researcher.py 95-96 and 117-138, statistics_researcher.py
\* 101-102 and 120-142: the summary arrives, is attached to the article,
\* and the item is appended.
DorkSummarized ==
    \E t \in DorkTasks :
        /\ dork[t].pc = "summarizing"
        /\ add_summary_to_article(hash_url(dork[t].results[dork[t].i]), 1)
        /\ AppendItem(t, dork[t].results[dork[t].i], dork[t].content)
        /\ UNCHANGED <<content_files, stores, worker, summarize_calls>>
        /\ UNCHANGED fetches
        /\ UNCHANGED <<orchestrator, unit, citations, limiter, searches, scraper, call, optimizer, queries, buffers, cleanup, tracking, cache, shared>>

\* academic_researcher.py 52-62 and statistics_researcher.py 44-70: the
\* result of a unit once its dork tasks are done, cut to its cap.
UnitResult(u) ==
    SubSeq(ItemsOf(u), 1,
           Min(Len(ItemsOf(u)),
               IF u = "academic" THEN AcademicCap ELSE StatisticsCap))

UnitDone(u) == \A t \in DorkTasks : UnitOf(t) = u => dork[t].pc = "done"

NextDorks == DorkSearch \/ DorkNext \/ DorkScraped \/ DorkSummarized

SpecDorks == Init /\ [][NextDorks]_vars

(* ---------------------------- URL tracking ----------------------------- *)

\* The urls a run fetches, by the patterns of _classify_and_count_url they
\* contain: none (a plain web page), one, or two (a PDF on an academic
\* domain, an arXiv PDF).
UrlPatterns ==
    {{}, {"wikipedia"}, {"news"}, {"arxiv", "pdf"}, {"stats"}, {"doi"},
     {"pdf", "academic"}}

\* url_tracking.py 72-124: every test that matches adds one to its
\* counter; the .pdf test (104-105) and the academic-domain test (116-119)
\* add to the same counter; a url that matches none is a web page.
classify_and_count_url(t, patterns) ==
    [t EXCEPT
        !.wikipedia_count = IF "wikipedia" \in patterns THEN @ + 1 ELSE @,
        !.news_count = IF "news" \in patterns THEN @ + 1 ELSE @,
        !.arxiv_count = IF "arxiv" \in patterns THEN @ + 1 ELSE @,
        !.stats_sources_count = IF "stats" \in patterns THEN @ + 1 ELSE @,
        !.academic_pdf_count =
            @ + (IF "pdf" \in patterns THEN 1 ELSE 0)
              + (IF "academic" \in patterns THEN 1 ELSE 0),
        !.doi_papers_count = IF "doi" \in patterns THEN @ + 1 ELSE @,
        !.web_page_count = IF patterns = {} THEN @ + 1 ELSE @]

\* researcher.py 225-233 and url_tracking.py 11-28: a run starts.
\* reset_tracking makes a new dictionary, which the tracker and the
\* researcher object name from now on; of the four researchers only the
\* one with an _update_tracking_counts method, the arXiv researcher, is
\* given it.
ResetTracking ==
    /\ tracked.runs < MaxRuns
    /\ subtopic_call.pc # "researching"
    /\ tracking_dicts' = Append(tracking_dicts, NewTracking)
    /\ tracking_refs' = [tracking_refs EXCEPT
                            !.url_tracker = Len(tracking_dicts) + 1,
                            !.scientist = Len(tracking_dicts) + 1,
                            !.arxiv_researcher = Len(tracking_dicts) + 1]
    /\ tracked' = [runs |-> tracked.runs + 1, fetches |-> 0,
                   arxiv_updated |-> FALSE]
    /\ subtopic_call' = NoSubtopicCall
    /\ UNCHANGED <<orchestrator, unit, storage, citations, limiter, searches, scraper, call, optimizer, queries, buffers, cleanup, dorks, cache, shared>>

\* url_tracking.py 39-69: a tracked fetch, by the research_subtopic call
\* in progress or by another unit. The total goes up; a fetch with a text
\* is classified, one without is counted as failed. The counters are those
\* of the dictionary the tracker names.
TrackedScrape ==
    \E patterns \in UrlPatterns, content \in BOOLEAN, own \in BOOLEAN :
        /\ tracked.runs > 0
        /\ tracked.fetches < MaxTracked
        /\ own => subtopic_call.pc = "researching"
        /\ LET d == tracking_refs.url_tracker
               t == [tracking_dicts[d] EXCEPT !.total_urls_scraped = @ + 1]
           IN tracking_dicts' =
                 [tracking_dicts EXCEPT ![d] =
                     IF content THEN classify_and_count_url(t, patterns)
                     ELSE [t EXCEPT !.failed_scrapes = @ + 1]]
        /\ tracked' = [tracked EXCEPT !.fetches = @ + 1]
        /\ subtopic_call' =
              IF own /\ content /\ patterns = {}
              THEN [subtopic_call EXCEPT !.web_fetched = @ + 1]
              ELSE subtopic_call
        /\ UNCHANGED tracking_refs
        /\ UNCHANGED <<orchestrator, unit, storage, citations, limiter, searches, scraper, call, optimizer, queries, buffers, cleanup, dorks, cache, shared>>

\* arxiv_researcher.py 72-88 and 192-195: once in a run the arXiv unit
\* adds the number of papers it summarized to arxiv_count; the papers come
\* from the arXiv client, not from a tracked fetch.
ArxivUpdateTrackingCounts ==
    \E count \in 1..MaxArxivPapers :
        /\ tracked.runs > 0
        /\ ~tracked.arxiv_updated
        /\ tracking_dicts' =
              [tracking_dicts EXCEPT
                  ![tracking_refs.arxiv_researcher].arxiv_count = @ + count]
        /\ tracked' = [tracked EXCEPT !.arxiv_updated = TRUE]
        /\ UNCHANGED <<tracking_refs, subtopic_call>>
        /\ UNCHANGED <<orchestrator, unit, storage, citations, limiter, searches, scraper, call, optimizer, queries, buffers, cleanup, dorks, cache, shared>>

\* subtopic_researcher.py 32: a research_subtopic call reads the web page
\* count of the dictionary its researcher names.
SubtopicStart ==
    /\ tracked.runs > 0
    /\ subtopic_call.pc = "idle"
    /\ subtopic_call' =
          [NoSubtopicCall EXCEPT
              !.pc = "researching",
              !.initial_web_count =
                  tracking_dicts[tracking_refs.subtopic_researcher].web_page_count]
    /\ UNCHANGED <<tracking_dicts, tracking_refs, tracked>>
    /\ UNCHANGED <<orchestrator, unit, storage, citations, limiter, searches, scraper, call, optimizer, queries, buffers, cleanup, dorks, cache, shared>>

\* subtopic_researcher.py 330-339: the Section carries the difference of
\* the web page count and the dictionary of the researcher.
SubtopicReturn ==
    /\ subtopic_call.pc = "researching"
    /\ subtopic_call' =
          [subtopic_call EXCEPT
              !.pc = "returned",
              !.web_pages_added =
                  tracking_dicts[tracking_refs.subtopic_researcher].web_page_count
                      - subtopic_call.initial_web_count,
              !.url_tracking = tracking_refs.subtopic_researcher]
    /\ UNCHANGED <<tracking_dicts, tracking_refs, tracked>>
    /\ UNCHANGED <<orchestrator, unit, storage, citations, limiter, searches, scraper, call, optimizer, queries, buffers, cleanup, dorks, cache, shared>>

NextTracking ==
    \/ ResetTracking \/ TrackedScrape \/ ArxivUpdateTrackingCounts
    \/ SubtopicStart \/ SubtopicReturn

SpecTracking == Init /\ [][NextTracking]_vars

(* ----------------------- RateLimitHandler: the table ------------------- *)

\* rate_limiter.py 21-30: the minimum interval of each configured service,
\* in tenths of a second.
service_min_interval ==
    [google_cse |-> 10, openverse |-> 10, gemini |-> 2, duckduckgo |-> 20,
     wikipedia |-> 5, unsplash |-> 15, arxiv |-> 30, brave |-> 30]

\* The service names the clients pass to wait_if_needed: search_client.py
\* 72, 224, 278 and 415, news_client.py 51, wikipedia_client.py 12,
\* arxiv_client.py 18.
ClientServices ==
    {"google_cse", "duckduckgo", "brave", "bing", "news", "wikipedia", "arxiv"}

\* rate_limiter.py 35: service_min_interval.get(service, 0).
min_interval_of(service) ==
    IF service \in DOMAIN service_min_interval
    THEN service_min_interval[service] ELSE 0

\* rate_limiter.py 32-39 for a service whose last request was elapsed
\* tenths of a second ago: the time wait_if_needed sleeps.
should_wait_for(service, elapsed) ==
    IF elapsed < min_interval_of(service)
    THEN min_interval_of(service) - elapsed
    ELSE 0

\* A client asks how long to wait before its next request.
ShouldWait ==
    /\ call.name = "should_wait"
    /\ ~call.done
    /\ call' = [call EXCEPT !.done = TRUE,
                   !.ret = should_wait_for(call.arg.service, call.arg.elapsed)]
    /\ UNCHANGED <<orchestrator, unit, storage, citations, limiter, searches, scraper, optimizer, queries, buffers, cleanup, dorks, tracking, cache, shared>>

InitThrottle ==
    InitCall("should_wait",
             [service : ClientServices, elapsed : 0..MaxElapsed])

SpecThrottle == InitThrottle /\ [][ShouldWait]_vars

(* ----------------------- process_query_with_cache ---------------------- *)

\* researcher.py 195-203 and 211-213: a unit calls process_query with a
\* prompt; an entry of the prompt younger than cache_ttl is returned, in
\* any other case the call goes for a permit of the semaphore.
CachedQueryStart ==
    \E c \in 1..MaxPromptCallers, q \in 1..MaxPrompts :
        /\ prompt_call[c].pc \in {"idle", "returned"}
        /\ gemini_calls[q] < MaxGeminiCalls
        /\ prompt_call' = [prompt_call EXCEPT ![c] =
              [pc |-> IF q \in result_cache THEN "returned" ELSE "waiting",
               query |-> q]]
        /\ UNCHANGED <<result_cache, gemini_calls>>
        /\ UNCHANGED <<orchestrator, unit, storage, citations, limiter, searches, scraper, call, optimizer, queries, buffers, cleanup, dorks, tracking, shared>>

\* researcher.py 205-206: the permit is taken and query_gemini is called
\* with the prompt; the cache is not read again.
CachedQueryEnters ==
    \E c \in 1..MaxPromptCallers :
        /\ prompt_call[c].pc = "waiting"
        /\ semaphore > 0
        /\ semaphore' = semaphore - 1
        /\ prompt_call' = [prompt_call EXCEPT ![c].pc = "in_flight"]
        /\ gemini_calls' = [gemini_calls EXCEPT ![prompt_call[c].query] = @ + 1]
        /\ UNCHANGED <<result_cache, query>>
        /\ UNCHANGED <<orchestrator, unit, storage, citations, limiter, searches, scraper, call, optimizer, buffers, cleanup, dorks, tracking, shared>>

\* researcher.py 206-209: query_gemini returns, the result is written to
\* result_cache under the prompt, the permit is given back.
CachedQueryReturns ==
    \E c \in 1..MaxPromptCallers :
        /\ prompt_call[c].pc = "in_flight"
        /\ semaphore' = semaphore + 1
        /\ result_cache' = result_cache \cup {prompt_call[c].query}
        /\ prompt_call' = [prompt_call EXCEPT ![c].pc = "returned"]
        /\ UNCHANGED <<gemini_calls, query>>
        /\ UNCHANGED <<orchestrator, unit, storage, citations, limiter, searches, scraper, call, optimizer, buffers, cleanup, dorks, tracking, shared>>

NextCache == CachedQueryStart \/ CachedQueryEnters \/ CachedQueryReturns

SpecCache == Init /\ [][NextCache]_vars

(* --------------- store_article / add_summary_to_article ---------------- *)
(* Inside one session the two operations are synchronous, so the units of  *)
(* a session run them one after the other; the threads of several sessions *)
(* are preemptive, so the read and the write of the index file are steps   *)
(* of their own.                                                           *)

\* article_storage.py 43 and 84-86, 97-100: _load_index reads the whole
\* file; add_summary_to_article of an id the loaded index lacks returns
\* False and writes nothing.
ThreadLoadIndex ==
    \E t \in 1..MaxThreads, op \in {"store_article", "add_summary"},
       a \in 1..MaxShared :
        /\ thread[t].pc = "idle"
        /\ thread' = [thread EXCEPT ![t] =
              IF op = "add_summary" /\ index_file[a] = "absent"
              THEN NoUpdate
              ELSE [pc |-> "loaded", op |-> op, id |-> a, loaded |-> index_file]]
        /\ UNCHANGED <<index_file, returned>>
        /\ UNCHANGED <<orchestrator, unit, storage, citations, limiter, searches, scraper, call, optimizer, queries, buffers, cleanup, dorks, tracking, cache>>

\* article_storage.py 44-47 and 87-91, 102-105: the loaded index gets the
\* record (a fresh one without summary) or the summary, _save_index writes
\* the whole of it over the file, and the operation returns.
ThreadSaveIndex ==
    \E t \in 1..MaxThreads :
        /\ thread[t].pc = "loaded"
        /\ LET a == thread[t].id
               rec == IF thread[t].op = "store_article" THEN "stored"
                      ELSE "summarized"
           IN  /\ index_file' = [thread[t].loaded EXCEPT ![a] = rec]
               /\ returned' = [returned EXCEPT ![a] = rec]
        /\ thread' = [thread EXCEPT ![t] = NoUpdate]
        /\ UNCHANGED <<orchestrator, unit, storage, citations, limiter, searches, scraper, call, optimizer, queries, buffers, cleanup, dorks, tracking, cache>>

NextShared == ThreadLoadIndex \/ ThreadSaveIndex

SpecShared == Init /\ [][NextShared]_vars

(* ------------------------------ properties ---------------------------- *)

\* C1: generate_research_paper never propagates an exception: whatever
\* raises in a step, a persisting of the snapshot included, the call
\* returns to its caller instead of raising.
C1_NeverPropagates == pc # "raised"

\* C2: after an uncaught exception in a step (the call has returned the
\* empty path), the last persisted snapshot has status error and its error
\* log holds the entry of that exception.
C2_ErrorStatusPersisted ==
    pc = "return_empty" => (disk.status = "error" /\ disk.errors >= 1)

\* C3: whenever generate_research_paper returns the markdown path, whatever
\* the PDF conversion returned, the persisted status is terminal and not
\* left at researching.
C3_TerminalStatus ==
    pc = "return_markdown" => disk.status \in {"completed", "error"}

\* C4: the persisted status never goes back: once a snapshot with status
\* completed or error is on disk, no later save changes its status, also in
\* a run started from the reloaded snapshot.
C4_StatusNeverReverts ==
    [][disk.status \in {"completed", "error"} => disk'.status = disk.status]_vars

\* C5: progress.current_step takes the values 1, 2, ..., 10 in that order
\* and skips none, for every plan including the empty one: whenever it
\* changes, it changes to its successor.
C5_NoStepSkipped ==
    [][progress'.current_step # progress.current_step
          => progress'.current_step = progress.current_step + 1]_vars

\* The fields of progress that update_step, complete_current_step and the
\* orchestrator's own assignments write.
StepFields(p) == <<p.current_step, p.subtasks, p.completed_subtasks>>

\* C6 as stated: at every suspension point of the orchestrator the persisted
\* progress equals the in-memory progress.
C6_PersistedProgressEqual == Suspended => disk.progress = progress

\* C6, amended: at every suspension point the persisted current_step,
\* subtasks and completed_subtasks equal the in-memory ones, and every block
\* that changes one of them saves the snapshot before the next block starts
\* (or the save raises and the call ends), so no two transitions share a
\* save.  analyzing_count, which research_subtopic increments, may be ahead
\* of the snapshot.
C6_WriteThrough ==
    /\ [](Suspended => StepFields(disk.progress) = StepFields(progress))
    /\ [][StepFields(progress') # StepFields(progress)
             => \/ pc' = "raised"
                \/ /\ disk' = Snapshot(research_data', progress',
                                       academic_sources')
                   /\ StepFields(disk'.progress) = StepFields(progress')]_vars

\* C6 witness: the orchestrator is suspended in Deep Research after a
\* section was recorded, analyzing_count in memory is ahead of the snapshot
\* and the step fields agree.
C6_Witness ==
    /\ pc = "await_subtopic"
    /\ section_results >= 1
    /\ progress.completed_subtasks > 0
    /\ progress.analyzing_count > disk.progress.analyzing_count
    /\ StepFields(disk.progress) = StepFields(progress)

\* C7: when generate_research_paper returns, every task it dispatched has
\* been awaited and the section of every finished subtopic task is in
\* research_results.
C7_AllTasksAwaited ==
    pc \in ReturnPCs =>
        /\ \A t \in TaskNames : task[t] \in {"none", "awaited"}
        /\ \A s \in SubIdx : subtask[s] \in {"none", "awaited"}
        /\ \A s \in SubIdx :
              subtask[s] # "none" => research_data.research_results[s] > 0

\* C8: has_sufficient_research is evaluated only after every task of the
\* current batch has been awaited and its section recorded.
C8_GateAfterWholeBatch ==
    (pc = "gate_check" /\ section_results >= MinSections) =>
        \A s \in BatchOf(batch_idx) :
            /\ subtask[s] = "awaited"
            /\ research_data.research_results[s] > 0

\* C9: once has_sufficient_research has returned true, no further subtopic
\* research task is dispatched.
C9_NoDispatchAfterSufficient ==
    [][sufficient => \A s \in SubIdx : subtask[s] = "none" => subtask'[s] = "none"]_vars

C11_UnitsNeverRaise ==
    /\ unit.pc # "raised"
    /\ unit.pc = "returned" => unit.result = NormalShape(unit.name)

\* C12: store_article is idempotent per url: a store returns the id of the
\* url, the same one as any earlier store of that url; right after a store
\* the content and the metadata of the url are those of that call; and the
\* index always holds exactly one record per distinct url stored.
C12_StoreIdempotent ==
    /\ [](/\ \A id \in DOMAIN articles :
               /\ articles[id].id = id
               /\ hash_url(articles[id].url) = id
          /\ \A u \in Urls :
               Cardinality({id \in DOMAIN articles : articles[id].url = u})
                   = (IF stores[u] > 0 THEN 1 ELSE 0)
          /\ last_call.op = "store_article" =>
               /\ last_call.ret \in DOMAIN articles
               /\ articles[last_call.ret].url = last_call.url
               /\ content_files[last_call.ret] = last_call.content
               /\ articles[last_call.ret].metadata
                      = MetadataOrEmpty(last_call.metadata))
    /\ [][\A id \in DOMAIN articles :
             (last_call'.op = "store_article"
                 /\ last_call'.url = articles[id].url)
             => (last_call'.ret = id /\ DOMAIN articles' = DOMAIN articles)]_vars

\* C12 witness: a url was stored twice, the second time with another text,
\* and the index holds its one record with the second text.
C12_Witness ==
    /\ \E u \in Urls :
          /\ stores[u] = 2
          /\ last_call.op = "store_article"
          /\ last_call.url = u
          /\ last_call.content = 2
          /\ content_files[hash_url(u)] = 2
    /\ \E u \in Urls : stores[u] = 0
    /\ Cardinality(DOMAIN articles) = 1

\* C13: add_reference is idempotent per url and numbers in first-seen
\* order: an add of a registered url changes neither the registry nor the
\* counter, an add of a new url gives it the next number, and the numbers
\* in the registry are always exactly 1..n, one per url.
C13_AddReferenceIdempotent ==
    /\ [](/\ citation_counter = Cardinality(DOMAIN citation_references) + 1
          /\ {citation_references[u] : u \in DOMAIN citation_references}
                = 1..Cardinality(DOMAIN citation_references)
          /\ \A u, v \in DOMAIN citation_references :
                citation_references[u] = citation_references[v] => u = v)
    /\ [][\A u \in Urls :
             adds'[u] # adds[u] =>
                IF u \in DOMAIN citation_references
                THEN /\ citation_references' = citation_references
                     /\ citation_counter' = citation_counter
                ELSE /\ citation_references'[u] = citation_counter
                     /\ \A v \in DOMAIN citation_references :
                           citation_references'[v] = citation_references[v]]_vars

\* C13 witness: two urls are registered and the first-seen one was added
\* again: it still has number 1, the other has 2, the counter is at 3.
C13_Witness ==
    \E u, v \in Urls :
        /\ adds[u] = 2
        /\ adds[v] >= 1
        /\ citation_references = (u :> 1) @@ (v :> 2)
        /\ citation_counter = 3

\* C14: once a persisted snapshot shows citation number n for a url, every
\* later snapshot shows the same n for that url.
C14_CitationNumberStable ==
    [][\A u \in DOMAIN snapshot_references :
          snapshot_references[u] # None =>
              /\ u \in DOMAIN snapshot_references'
              /\ snapshot_references'[u] = snapshot_references[u]]_vars


\* C15: the summary of an article is computed at most once: no url has
\* its summarization invoked twice, by one unit or by two.
C15_SummaryOnce == \A url \in Urls : summarize_calls[url] <= 1

\* C16: a wait_if_needed call that starts after another has returned
\* stamps at least min_interval after the other's stamp: the stamp of a
\* returned call is at least min_interval later than service_last_call
\* was when the call started.
C16_SequentialGap ==
    \A c \in Callers :
        waiter[c].pc = "returned" =>
            waiter[c].stamp - waiter[c].seen >= MinInterval

\* A call that started after a stamp, slept and returned.
C16_Witness ==
    \E c \in Callers :
        /\ waiter[c].pc = "returned"
        /\ waiter[c].seen >= MinInterval
        /\ waiter[c].wake > 0

\* C17: every stamp is at least min_interval later than the stamp before
\* it, whatever number of callers wait together.
C17_StampGap ==
    \A c \in Callers :
        waiter[c].pc = "returned" =>
            waiter[c].stamp - waiter[c].prev >= MinInterval

\* C18: a google_search call sends at most max_retries requests to the
\* primary provider, sleeps 5*n seconds after its n-th 429 before it
\* retries, and once its attempts are used up returns the list of the
\* alternates, empty or not; no call ends by raising.
C18_CappedBackoffThenFallback ==
    \A c \in Callers :
        /\ search[c].requests <= max_retries
        /\ search[c].pc = "backoff" =>
               search[c].sleep = BackoffFactor * search[c].n429
        /\ (search[c].pc = "returned" /\ search[c].retry_count >= max_retries)
               => search[c].ret \in {"alternates", "alternates_empty"}
        /\ search[c].pc \in {"idle", "attempt", "backoff", "combined",
                             "returned"}

\* A call that met 429 on every allowed attempt, slept in between and
\* returned the alternates' list.
C18_Witness ==
    \E c \in Callers :
        /\ search[c].pc = "returned"
        /\ search[c].n429 = max_retries
        /\ search[c].requests = max_retries
        /\ search[c].sleep = BackoffFactor
        /\ search[c].ret \in {"alternates", "alternates_empty"}

\* C19: once cse_fallback_count has reached the threshold it stays there,
\* so that no later call asks the primary provider.
C19_FallbackPermanent ==
    [][cse_fallback_count >= FallbackThreshold
          => cse_fallback_count' >= FallbackThreshold]_vars

\* C20: a scrape that fails returns the empty string, and only the text
\* of a page or of a pdf is ever stored as article content.
C20_FailureIsEmptyString ==
    /\ (fetch.pc = "scraped" /\ fetch.met # "ok") => fetch.ret = ""
    /\ stored_content \subseteq {"text"}

\* C21: whenever no fetch is in flight, total_urls_scraped is the number
\* of fetches that returned content plus failed_scrapes: failed_scrapes
\* counts the fetches that returned nothing, and no other.
C21_CountersAccount ==
    fetch.pc # "scraped" => scrapes = content_fetches + failed_scrapes

\* C22: has_sufficient_research is true exactly when there are at least 3
\* arXiv, DOI and PDF sources together, at least 2 statistics sources, at
\* least 3 sections, and at least 3 sections of 500 characters or more.
C22_FourGates ==
    (call.name = "has_sufficient_research" /\ call.done) =>
        LET src == call.arg.src
            len == call.arg.rd.research_results
        IN  call.ret <=>
              /\ src.arxiv_papers + src.doi_papers + src.academic_pdfs >= 3
              /\ src.statistics_sources >= 2
              /\ Cardinality({s \in SubIdx : len[s] > 0}) >= 3
              /\ Cardinality({s \in SubIdx : len[s] >= 500}) >= 3

\* The call returned True with every gate at its boundary.
C22_Witness ==
    /\ call.name = "has_sufficient_research" /\ call.done /\ call.ret = TRUE
    /\ call.arg.src.arxiv_papers + call.arg.src.doi_papers
           + call.arg.src.academic_pdfs = 3
    /\ call.arg.src.statistics_sources = 2
    /\ Cardinality({s \in SubIdx : call.arg.rd.research_results[s] = 500}) = 3
    /\ Cardinality({s \in SubIdx : call.arg.rd.research_results[s] = 499}) = 2

\* C23: for a content of MinRedundantLen characters or more, is_redundant
\* returns False when the content is given for the first time and True
\* when it was given before, as such or with another case, whitespace or
\* punctuation.
C23_RedundantIffSeen ==
    (redundancy.n > 0 /\ content_len(redundancy.content) >= MinRedundantLen)
        => (redundancy.ret <=> redundancy.known)

\* C24: a run that completes with a plan of at most 5 subtopics ends with
\* one entry per planned subtopic in research_results.
C24_OneSectionPerSubtopic ==
    (pc = "return_markdown" /\ research_data.status = "completed"
        /\ subtopics_data <= MaxResearched) =>
        Cardinality({s \in SubIdx : research_data.research_results[s] > 0})
            = subtopics_data

\* C25: in a run of a new session, current_step of the persisted snapshot
\* never decreases from one snapshot to the next.
C25_PersistedStepMonotone ==
    [][disk'.progress.current_step >= disk.progress.current_step]_vars

\* The snapshot of a completed run is on disk with the last step.
C25_Witness ==
    /\ disk.status = "completed"
    /\ disk.progress.current_step = MaxSteps
    /\ pc = "return_markdown"

C27_QueryCap ==
    Cardinality({c \in 1..MaxQueryCallers : query[c] = "in_flight"}) <= 5

\* Five calls are in flight and another unit waits for a permit.
C27_Witness ==
    /\ Cardinality({c \in 1..MaxQueryCallers : query[c] = "in_flight"}) = 5
    /\ \E c \in 1..MaxQueryCallers : query[c] = "waiting"
    /\ semaphore = 0

\* C28: add_log is reentrancy-guarded. No add_log call runs inside another
\* one (a call that arrives while one is executing returns at once), the
\* guard flag is up exactly while a call is executing, so it is down again
\* after a return and after an exception, and the log holds one entry per
\* outer call that reached its return, and no other entry.
C28_ReentrancyGuarded ==
    /\ Len(add_log_frames) <= 1
    /\ in_add_log <=> add_log_frames # <<>>
    /\ Len(logs) = add_log_calls.entries
                    + (IF /\ add_log_frames # <<>>
                          /\ add_log_frames[1].ret = "entry"
                       THEN 1 ELSE 0)

\* A call appends its entry after a nested call was turned away and after
\* an earlier call ended by an exception.
C28_Witness ==
    /\ add_log_calls.noop > 0
    /\ add_log_calls.raised > 0
    /\ add_log_frames # <<>>
    /\ add_log_frames[1].ret = "entry"

\* C29: a status query leaves the session log as it was: the same number
\* of entries, each with the fields it had before the query.
C29_StatusQueryLeavesLog ==
    status_query.after = status_query.before

\* C30: whatever text the query collaborator returns for the subtopic
\* identification, the plan identify_subtopics hands to the pipeline is a
\* non-empty list of subtopic records, each with a subtopic name.
C30_PlanRecovered ==
    (unit.name = "identify_subtopics" /\ unit.pc = "returned")
        => unit.plan = "records"

\* C31: cleanup_old_articles(d) removes exactly the records whose timestamp
\* is more than d days before the call, with their content files, leaves
\* every other record and content file as it was, and returns the number
\* of records removed.
C31_CleanupExact ==
    cleanup_call.n > 0 =>
        LET c == cleanup_call
            old == {id \in DOMAIN c.articles :
                       c.at - c.articles[id].timestamp > c.days * SecondsPerDay}
        IN /\ DOMAIN c.articles_after = DOMAIN c.articles \ old
           /\ \A id \in DOMAIN c.articles_after :
                 c.articles_after[id] = c.articles[id]
           /\ DOMAIN c.content_files_after = DOMAIN c.content_files \ old
           /\ \A id \in DOMAIN c.content_files_after :
                 c.content_files_after[id] = c.content_files[id]
           /\ c.ret = Cardinality(old)

\* A cleanup removed one record and kept another one that was exactly at
\* the cutoff.
C31_Witness ==
    /\ cleanup_call.ret = 1
    /\ cleanup_call.days > 0
    /\ \E id \in DOMAIN cleanup_call.articles_after :
          cleanup_call.at - cleanup_call.articles[id].timestamp
              = cleanup_call.days * SecondsPerDay

\* C32: within one run a url is passed to the fetch collaborator at most
\* once.
C32_FetchedOnce ==
    \A url \in Urls : fetches[url] <= 1

\* C36: no unit result lists the same url twice: the urls of the academic
\* unit's academic_pdfs, and those of the statistics unit's
\* statistics_sources, are pairwise distinct.
C36_NoDuplicateUrl ==
    \A u \in {"academic", "statistics"} :
        UnitDone(u) =>
            \A j, k \in 1..Len(UnitResult(u)) :
                UnitResult(u)[j].url = UnitResult(u)[k].url => j = k

\* C37: every item of the academic unit's result has at least 500
\* characters of content and every item of the statistics unit's result at
\* least 300.
C37_NoShortItem ==
    \A u \in {"academic", "statistics"} :
        UnitDone(u) =>
            \A k \in 1..Len(UnitResult(u)) :
                UnitResult(u)[k].content >= MinLenOf(u)

\* C33: the web_pages_added of a Section is the number of web-category
\* urls fetched with success during that research_subtopic call, and the
\* counters the Section carries are the current counters of the run.
C33_SectionDelta ==
    subtopic_call.pc = "returned" =>
        /\ subtopic_call.web_pages_added = subtopic_call.web_fetched
        /\ subtopic_call.url_tracking = tracking_refs.scientist

\* C35: no category counter of the run exceeds the number of successful
\* tracked fetches, total_urls_scraped - failed_scrapes.
C35_CategoryAtMostFetches ==
    LET t == tracking_dicts[tracking_refs.scientist]
        fetched == t.total_urls_scraped - t.failed_scrapes
    IN /\ t.wikipedia_count <= fetched
       /\ t.news_count <= fetched
       /\ t.arxiv_count <= fetched
       /\ t.stats_sources_count <= fetched
       /\ t.academic_pdf_count <= fetched
       /\ t.doi_papers_count <= fetched
       /\ t.web_page_count <= fetched

\* C34: every provider request is throttled: for each service name a
\* client passes to wait_if_needed, a request that follows the last one of
\* that service at once has to wait a positive time.
C34_EveryProviderThrottled ==
    (call.name = "should_wait" /\ call.done /\ call.arg.elapsed = 0)
        => call.ret > 0

C39_NoLostUpdate ==
    \A a \in 1..MaxShared :
        /\ returned[a] # "none" => index_file[a] # "absent"
        /\ returned[a] = "summarized" => index_file[a] = "summarized"

\* C40: in every persisted snapshot completed_subtasks lies between 0 and
\* the number of subtasks of the current step (both kept in halves here),
\* and from one snapshot of Deep Research to the next completed_subtasks
\* never decreases, whatever the plan size and whichever subtopic tasks
\* fail.
C40_CompletedSubtasksBounded ==
    /\ [](/\ 0 <= disk.progress.completed_subtasks
          /\ disk.progress.completed_subtasks <= 2 * disk.progress.subtasks)
    /\ [][disk.progress.current_step = 5 /\ disk'.progress.current_step = 5
             => disk'.progress.completed_subtasks
                    >= disk.progress.completed_subtasks]_vars

\* C40 witness: with five subtopics researched, one of them replaced by
\* the fallback section after its task failed, the snapshot of Deep
\* Research holds the fractional value 3.5.
C40_Witness ==
    /\ subtopics_to_research = MaxResearched
    /\ disk.progress.current_step = 5
    /\ disk.progress.completed_subtasks = 2 * VisibleSubtasks + 1
    /\ \E s \in SubIdx : disk.research_results[s] = FallbackLen

====
